---- MODULE Spec2Model ----
(***************************************************************************)
(* A model of shmail's synchronisation engine (services/sync.py), its      *)
(* local store (services/db.py) and the sync trigger of the application    *)
(* (app.py).                                                               *)
(***************************************************************************)
EXTENDS Integers, Sequences, FiniteSets, TLC

VARIABLES
    db,        \* the SQLite file: [committed |-> Store, working |-> Store of the open writer connection]
    pc,        \* position of the sync thread inside incremental_sync / initial_sync
    history_id,\* local variable history_id of incremental_sync
    resp,      \* local variable data (GmailHistoryResponse) of incremental_sync
    idx,       \* loop position: next record of data.history / next message of initial_sync
    msgs,      \* local variable messages of initial_sync
    result,    \* local variable result (SyncResult) of incremental_sync
    outcome,   \* how the last attempt ended: "none", "returned", "raised", "crashed"
    err,       \* the exception in flight or propagated to the caller
    att,       \* history of the current attempt (what it requested, applied, committed)
    attempts,  \* number of sync attempts started
    page_token,\* local variable page_token of incremental_sync
    feed,      \* the remote side: the mailbox's change records, in order
    head,      \* the remote side: how many of them have happened (the current historyId)
    gone,      \* the remote side: what get_message answers for each message id
    app        \* ShmailApp: its sync_service, its workers, the SyncComplete messages posted

syncVars == <<db, pc, history_id, resp, idx, msgs, result, outcome, err, att, attempts,
              page_token, feed, head, gone>>

vars == <<syncVars, app>>

(***************************************************************************)
(* Bounds and value universes                                              *)
(***************************************************************************)
MaxAttempts == 3
MaxRecords == 2
MaxTriggers == 3

MsgIds == {"m1", "m2"}
LabelIds == {"INBOX", "UNREAD"}
None == -1
Null == "NULL"
NoErr == "NoErr"
NoPage == [history |-> <<>>, historyId |-> None, nextPageToken |-> None]

Put(f, k, v) == [x \in (DOMAIN f) \cup {k} |-> IF x = k THEN v ELSE f[x]]
Del(f, k) == [x \in (DOMAIN f) \ {k} |-> f[x]]
EmptyFn == [x \in {} |-> None]

(***************************************************************************)
(* models/__init__.py: the history DTOs                                    *)
(***************************************************************************)
HistoryMessage(id, labelIds) == [id |-> id, labelIds |-> labelIds]

HistoryEvent(message, labelIds) == [message |-> message, labelIds |-> labelIds]

History(added, labelsAdded, labelsRemoved, deleted) ==
    [messagesAdded |-> added, labelsAdded |-> labelsAdded,
     labelsRemoved |-> labelsRemoved, messagesDeleted |-> deleted]

(***************************************************************************)
(* services/db.py: the store.  A Store is the content of the five tables.  *)
(* Foreign keys are declared in the schema but never switched on by        *)
(* get_connection, so no statement cascades.                               *)
(***************************************************************************)
EmptyStore ==
    [emails |-> EmptyFn, labels |-> EmptyFn, email_labels |-> {},
     contacts |-> EmptyFn, metadata |-> EmptyFn]

get_metadata(store, key) ==
    IF key \in DOMAIN store.metadata THEN store.metadata[key] ELSE None

\* The rows of a set as a sequence, in no particular order.
RECURSIVE SetToSeq(_)
SetToSeq(S) ==
    IF S = {} THEN <<>>
    ELSE LET x == CHOOSE y \in S : TRUE IN <<x>> \o SetToSeq(S \ {x})

\* The strings of the model in SQLite's BINARY collation order.
Collation ==
    <<"", "A-Label", "Ann", "INBOX", "Inbox", "UNREAD", "Z-Label", "a@x", "b@x", "c@x",
      "system", "user">>

StrRank(str) == CHOOSE i \in DOMAIN Collation : Collation[i] = str

\* LIMIT ? OFFSET ?
LimitOffset(rows, limit, offset) ==
    SubSeq(rows, offset + 1, IF offset + limit < Len(rows) THEN offset + limit ELSE Len(rows))

\* The faulty variant of get_emails that lists the oldest message first.
get_emails_oldest_first(store, label_id, limit, offset) ==
    LimitOffset(
        SortSeq(SetToSeq({[id |-> m, sender |-> store.emails[m].sender,
                           timestamp |-> store.emails[m].timestamp,
                           is_read |-> store.emails[m].is_read] :
                          m \in {x \in DOMAIN store.emails :
                                   <<x, label_id>> \in store.email_labels}}),
                LAMBDA a, b : a.timestamp < b.timestamp),
        limit, offset)

\* The faulty variant of get_labels that orders by name alone.
get_labels_by_name(store) ==
    SortSeq(SetToSeq({[id |-> l, name |-> store.labels[l].name,
                       type |-> store.labels[l].type] : l \in DOMAIN store.labels}),
            LAMBDA a, b : StrRank(a.name) < StrRank(b.name))

\* The faulty variant of get_top_contacts that ranks by recency alone.
get_top_contacts_by_recency(store, limit) ==
    LimitOffset(
        SortSeq(SetToSeq({[email |-> c, name |-> store.contacts[c].name,
                           interaction_count |-> store.contacts[c].interaction_count,
                           last_interaction |-> store.contacts[c].last_interaction] :
                          c \in DOMAIN store.contacts}),
                LAMBDA a, b : a.last_interaction > b.last_interaction),
        limit, 0)

\* get_emails: the messages in a membership row of the label, newest first.
get_emails(store, label_id, limit, offset) ==
    LimitOffset(
        SortSeq(SetToSeq({[id |-> m, sender |-> store.emails[m].sender,
                           timestamp |-> store.emails[m].timestamp,
                           is_read |-> store.emails[m].is_read] :
                          m \in {x \in DOMAIN store.emails :
                                   <<x, label_id>> \in store.email_labels}}),
                LAMBDA a, b : a.timestamp > b.timestamp),
        limit, offset)

\* get_labels: ORDER BY type ASC, name ASC.
get_labels(store) ==
    SortSeq(SetToSeq({[id |-> l, name |-> store.labels[l].name,
                       type |-> store.labels[l].type] : l \in DOMAIN store.labels}),
            LAMBDA a, b : \/ StrRank(a.type) < StrRank(b.type)
                          \/ /\ a.type = b.type
                             /\ StrRank(a.name) < StrRank(b.name))

\* get_top_contacts: ORDER BY interaction_count DESC, last_interaction DESC.
get_top_contacts(store, limit) ==
    LimitOffset(
        SortSeq(SetToSeq({[email |-> c, name |-> store.contacts[c].name,
                           interaction_count |-> store.contacts[c].interaction_count,
                           last_interaction |-> store.contacts[c].last_interaction] :
                          c \in DOMAIN store.contacts}),
                LAMBDA a, b : \/ a.interaction_count > b.interaction_count
                              \/ /\ a.interaction_count = b.interaction_count
                                 /\ a.last_interaction > b.last_interaction),
        limit, 0)

\* set_metadata through a connection of its own in autocommit: the value is
\* visible at once, whatever becomes of the surrounding transaction.
set_metadata_autocommit(conn, key, value) ==
    [committed |-> [conn.committed EXCEPT !.metadata = Put(@, key, value)],
     working |-> [conn.working EXCEPT !.metadata = Put(@, key, value)]]

set_metadata(conn, key, value) ==
    [conn EXCEPT !.working.metadata = Put(@, key, value)]

\* INSERT OR IGNORE INTO labels: labels.id is the primary key and labels.name
\* is UNIQUE; a conflict on either leaves the table as it is.
insert_or_ignore_label(labels, id, name, type) ==
    IF id \in DOMAIN labels \/ \E l \in DOMAIN labels : labels[l].name = name
    THEN labels
    ELSE Put(labels, id, [name |-> name, type |-> type])

RECURSIVE upsert_email_labels(_, _, _, _)
upsert_email_labels(store, id, label_ids, i) ==
    IF i > Len(label_ids) THEN store
    ELSE upsert_email_labels(
            [store EXCEPT
                !.labels = insert_or_ignore_label(@, label_ids[i], "", ""),
                !.email_labels = @ \cup {<<id, label_ids[i]>>}],
            id, label_ids, i + 1)

upsert_email(conn, email) ==
    [conn EXCEPT !.working =
        upsert_email_labels(
            [@ EXCEPT !.emails = Put(@, email.id,
                [sender |-> email.sender, timestamp |-> email.timestamp,
                 is_read |-> email.is_read])],
            email.id, email.labels, 1)]

\* The faulty variant of upsert_contact that forgets the rollup and overwrites the row.
upsert_contact_replace(conn, email, name, timestamp) ==
    [conn EXCEPT !.working.contacts =
        Put(@, email, [name |-> name, interaction_count |-> 1,
                       last_interaction |-> timestamp])]

upsert_contact(conn, email, name, timestamp) ==
    [conn EXCEPT !.working.contacts =
        IF email \in DOMAIN @
        THEN Put(@, email,
                [name |-> IF name # Null THEN name ELSE @[email].name,
                 interaction_count |-> @[email].interaction_count + 1,
                 last_interaction |->
                    IF @[email].last_interaction >= timestamp
                    THEN @[email].last_interaction ELSE timestamp])
        ELSE Put(@, email, [name |-> name, interaction_count |-> 1,
                            last_interaction |-> timestamp])]

\* The faulty variant of update_labels that sets the message's labels to the
\* added ones.
update_labels_replace_all(conn, email_id, added_label_ids, removed_label_ids) ==
    [conn EXCEPT !.working.email_labels =
        IF added_label_ids = <<>>
        THEN @ \ {<<email_id, removed_label_ids[i]>> : i \in DOMAIN removed_label_ids}
        ELSE {row \in @ : row[1] # email_id}
                \cup {<<email_id, added_label_ids[i]>> : i \in DOMAIN added_label_ids}]

\* The faulty variant of update_labels that runs the INSERT and forgets the DELETE.
update_labels_insert_only(conn, email_id, added_label_ids, removed_label_ids) ==
    [conn EXCEPT !.working.email_labels =
        @ \cup {<<email_id, added_label_ids[i]>> : i \in DOMAIN added_label_ids}]

update_labels(conn, email_id, added_label_ids, removed_label_ids) ==
    [conn EXCEPT !.working.email_labels =
        (@ \ {<<email_id, removed_label_ids[i]>> : i \in DOMAIN removed_label_ids})
            \cup {<<email_id, added_label_ids[i]>> : i \in DOMAIN added_label_ids}]

\* The faulty variant of remove_email that deletes the sender's contact with the
\* message.
remove_email_and_sender(conn, email_id) ==
    [conn EXCEPT
        !.working.emails = Del(@, email_id),
        !.working.contacts =
            IF email_id \in DOMAIN conn.working.emails
            THEN Del(@, conn.working.emails[email_id].sender) ELSE @]

\* The faulty variant of remove_email whose DELETE matches no row.
remove_email_no_row(conn, email_id) == conn

remove_email(conn, email_id) ==
    [conn EXCEPT !.working.emails = Del(@, email_id)]

\* The faulty variant of upsert_label whose replaced rows take their
\* membership rows with them (ON DELETE CASCADE enforced).
upsert_label_cascade(conn, label_id, label_name, label_type) ==
    [conn EXCEPT
        !.working.labels =
            LET kept == {l \in DOMAIN @ : l # label_id /\ @[l].name # label_name}
                old == @
            IN Put([l \in kept |-> old[l]], label_id,
                   [name |-> label_name, type |-> label_type]),
        !.working.email_labels =
            {row \in @ : /\ row[2] # label_id
                         /\ row[2] \in DOMAIN conn.working.labels =>
                                conn.working.labels[row[2]].name # label_name}]

\* INSERT OR REPLACE INTO labels: every row in conflict (same id, or same
\* UNIQUE name) is deleted before the new row is inserted.
upsert_label(conn, label_id, label_name, label_type) ==
    [conn EXCEPT !.working.labels =
        LET kept == {l \in DOMAIN @ : l # label_id /\ @[l].name # label_name}
            old == @
        IN Put([l \in kept |-> old[l]], label_id,
               [name |-> label_name, type |-> label_type])]

\* get_connection: a new connection sees the committed content of the file.
get_connection(conn) == [committed |-> conn.committed, working |-> conn.committed]

\* limit: int = 50 of get_emails and get_top_contacts.
DefaultLimit == 50

\* The faulty variant of the read methods that reads through the writer's open
\* connection.
read_methods_on_writer(conn) ==
    [emails |-> [l \in LabelIds |-> get_emails(conn.working, l, DefaultLimit, 0)],
     labels |-> get_labels(conn.working),
     contacts |-> get_top_contacts(conn.working, DefaultLimit),
     history_id |-> get_metadata(conn.working, "history_id")]

\* The four read methods, each on a connection of its own (lines 107-143).
read_methods(conn) ==
    [emails |-> [l \in LabelIds |->
                    get_emails(get_connection(conn).working, l, DefaultLimit, 0)],
     labels |-> get_labels(get_connection(conn).working),
     contacts |-> get_top_contacts(get_connection(conn).working, DefaultLimit),
     history_id |-> get_metadata(get_connection(conn).working, "history_id")]

\* The faulty variant of transaction() that commits whatever the body raised.
transaction_exit_always_commit(conn, raised) ==
    [committed |-> conn.working, working |-> conn.working]

\* transaction(): conn.commit() when the body ends normally, conn.rollback()
\* and re-raise when it raises; the connection is then closed.
transaction_exit(conn, raised) ==
    IF raised = NoErr
    THEN [committed |-> conn.working, working |-> conn.working]
    ELSE [committed |-> conn.committed, working |-> conn.committed]

\* What transaction() lets out: the body's exception, unchanged.
transaction_reraise(raised) == raised

(***************************************************************************)
(* services/parser.py: the normaliser, on the remote content of a message. *)
(* A message's content is its From header (address and display name) and   *)
(* its date.                                                               *)
(***************************************************************************)
RemoteMessage(id) ==
    IF id = "m1"
    THEN [id |-> id, from_addr |-> "a@x", from_name |-> "Ann", date |-> 1,
          labelIds |-> <<"INBOX", "UNREAD">>]
    ELSE [id |-> id, from_addr |-> "a@x", from_name |-> "", date |-> 2,
          labelIds |-> <<"INBOX">>]

\* _extract_contacts: one observation per address, name stripped (the empty
\* string for a bare address, never null).
extract_contacts(message_data, timestamp) ==
    << [email |-> message_data.from_addr, name |-> message_data.from_name,
        timestamp |-> timestamp] >>

parse_gmail_response(message_id, message_data, label_ids) ==
    [email |-> [id |-> message_id, sender |-> message_data.from_addr,
                timestamp |-> message_data.date,
                is_read |-> ~(\E i \in DOMAIN label_ids : label_ids[i] = "UNREAD"),
                labels |-> label_ids],
     contacts |-> extract_contacts(message_data, message_data.date)]

(***************************************************************************)
(* services/sync.py                                                        *)
(***************************************************************************)
SyncResult(added, removed, labels_changed) ==
    [added |-> added, removed |-> removed, labels_changed |-> labels_changed]

any_changes(r) == r.added # 0 \/ r.removed # 0 \/ r.labels_changed # 0

RECURSIVE upsert_contacts(_, _, _)
upsert_contacts(conn, contacts, i) ==
    IF i > Len(contacts) THEN conn
    ELSE upsert_contacts(
            upsert_contact(conn, contacts[i].email, contacts[i].name,
                           contacts[i].timestamp),
            contacts, i + 1)

\* Lines 84-88 and 167-174: upsert the parsed message, then its contacts.
store_parsed(conn, parsed) ==
    upsert_contacts(upsert_email(conn, parsed.email), parsed.contacts, 1)

\* The faulty variant that gives up the rest of the additions on the first 404.
on_fetch_404_break(conn, res, added, fetch, i) ==
    [conn |-> conn, result |-> res, raised |-> NoErr]

RECURSIVE process_messages_added(_, _, _, _, _)
\* except HttpError: 404 is 'continue'.
on_fetch_404(conn, res, added, fetch, i) ==
    process_messages_added(conn, res, added, fetch, i + 1)

\* Lines 157-178: fetch[i] is the status get_message answers for added[i].
process_messages_added(conn, res, added, fetch, i) ==
    IF i > Len(added) THEN [conn |-> conn, result |-> res, raised |-> NoErr]
    ELSE LET res1 == [res EXCEPT !.added = @ + 1] IN
         IF fetch[i] = "200"
         THEN process_messages_added(
                store_parsed(conn,
                    parse_gmail_response(added[i].message.id,
                        RemoteMessage(added[i].message.id),
                        added[i].message.labelIds)),
                res1, added, fetch, i + 1)
         ELSE IF fetch[i] = "404"
         THEN on_fetch_404(conn, res1, added, fetch, i)
         ELSE [conn |-> conn, result |-> res1, raised |-> fetch[i]]

RECURSIVE process_labels_added(_, _, _)
process_labels_added(conn, events, i) ==
    IF i > Len(events) THEN conn
    ELSE process_labels_added(
            update_labels(conn, events[i].message.id, events[i].labelIds, <<>>),
            events, i + 1)

RECURSIVE process_labels_removed(_, _, _)
process_labels_removed(conn, events, i) ==
    IF i > Len(events) THEN conn
    ELSE process_labels_removed(
            update_labels(conn, events[i].message.id, <<>>, events[i].labelIds),
            events, i + 1)

RECURSIVE process_messages_deleted(_, _, _)
process_messages_deleted(conn, events, i) ==
    IF i > Len(events) THEN conn
    ELSE process_messages_deleted(
            remove_email(conn, events[i].message.id), events, i + 1)

\* The faulty variant of _process_history_record that applies the deletions
\* and the label removals before the additions.
process_history_record_removals_first(conn, record, res, fetch) ==
    LET a == process_messages_added(
                process_labels_added(
                  process_labels_removed(
                    process_messages_deleted(conn, record.messagesDeleted, 1),
                    record.labelsRemoved, 1),
                  record.labelsAdded, 1),
                res, record.messagesAdded, fetch, 1) IN
    IF a.raised # NoErr THEN a
    ELSE [a EXCEPT !.result =
                [a.result EXCEPT
                    !.labels_changed = @ + Len(record.labelsAdded)
                                         + Len(record.labelsRemoved),
                    !.removed = @ + Len(record.messagesDeleted)]]

\* _process_history_record: additions, label additions, label removals,
\* deletions; an exception of the additions leaves the rest undone.
process_history_record(conn, record, res, fetch) ==
    LET a == process_messages_added(conn, res, record.messagesAdded, fetch, 1) IN
    IF a.raised # NoErr THEN a
    ELSE [conn |-> process_messages_deleted(
                     process_labels_removed(
                       process_labels_added(a.conn, record.labelsAdded, 1),
                       record.labelsRemoved, 1),
                     record.messagesDeleted, 1),
          result |-> [a.result EXCEPT
                        !.labels_changed = @ + Len(record.labelsAdded)
                                             + Len(record.labelsRemoved),
                        !.removed = @ + Len(record.messagesDeleted)],
          raised |-> NoErr]

\* Lines 122-127: the records of a page in order, then the page's cursor;
\* status[m] is what get_message answers for message m.
RECURSIVE apply_records(_, _, _, _, _)
apply_records(conn, history, res, status, i) ==
    IF i > Len(history) THEN [conn |-> conn, result |-> res, raised |-> NoErr]
    ELSE LET r == process_history_record(conn, history[i], res,
                    [j \in DOMAIN history[i].messagesAdded |->
                        status[history[i].messagesAdded[j].message.id]])
         IN IF r.raised # NoErr THEN r
            ELSE apply_records(r.conn, history, r.result, status, i + 1)

apply_page(conn, page, res, status) ==
    LET r == apply_records(conn, page.history, res, status, 1) IN
    IF r.raised # NoErr THEN r
    ELSE [r EXCEPT !.conn = set_metadata(r.conn, "history_id", page.historyId)]

(***************************************************************************)
(* The remote side (services/gmail.py): what each call may answer.         *)
(***************************************************************************)
HttpStatuses == {"404", "410", "500"}
FetchAnswers == {"200"} \cup HttpStatuses

RemoteLabels ==
    << [id |-> "INBOX", name |-> "INBOX", type |-> "system"],
       [id |-> "UNREAD", name |-> "UNREAD", type |-> "system"] >>

MessageLists == {<<>>, <<"m1">>, <<"m1", "m2">>, <<"m2", "m1">>}

RecAdded ==
    History(<<HistoryEvent(HistoryMessage("m1", <<"INBOX", "UNREAD">>), <<>>)>>,
            <<>>, <<>>, <<>>)
RecAddedTwo ==
    History(<<HistoryEvent(HistoryMessage("m1", <<"INBOX">>), <<>>),
              HistoryEvent(HistoryMessage("m2", <<>>), <<>>)>>,
            <<HistoryEvent(HistoryMessage("m2", <<>>), <<"UNREAD">>)>>, <<>>, <<>>)
RecLabels ==
    History(<<>>,
            <<HistoryEvent(HistoryMessage("m1", <<>>), <<"INBOX">>)>>,
            <<HistoryEvent(HistoryMessage("m1", <<>>), <<"UNREAD">>)>>, <<>>)
RecDeleted ==
    History(<<>>, <<>>, <<>>, <<HistoryEvent(HistoryMessage("m1", <<>>), <<>>)>>)
\* The opposite label change: UNREAD added and INBOX removed on m1.
RecLabelsUnread ==
    History(<<>>,
            <<HistoryEvent(HistoryMessage("m1", <<>>), <<"UNREAD">>)>>,
            <<HistoryEvent(HistoryMessage("m1", <<>>), <<"INBOX">>)>>, <<>>)
\* One message added and another deleted by the same record.
RecAddedDeleted ==
    History(<<HistoryEvent(HistoryMessage("m1", <<>>), <<>>)>>, <<>>, <<>>,
            <<HistoryEvent(HistoryMessage("m2", <<>>), <<>>)>>)

\* The change feeds the remote mailbox may go through; record i carries
\* history id i, and a cursor is the id of the last record it covers.
Feeds == { <<RecLabels, RecAddedTwo, RecDeleted>>,
           <<RecDeleted, RecAdded, RecLabels>>,
           <<RecAddedDeleted, RecAddedTwo, RecAddedDeleted>> }

Min(a, b) == IF a <= b THEN a ELSE b

\* list_history(start_history_id, page_token): the pages the remote side may
\* answer.  It resumes after the token (after the cursor when there is none),
\* cuts the page where it likes, and gives the id of the page's last record
\* or of the mailbox's last record as the newest cursor value.
list_history(start_history_id, token) ==
    LET from == IF token = None THEN start_history_id ELSE token IN
    IF from >= head
    THEN {[history |-> <<>>, historyId |-> head, nextPageToken |-> None]}
    ELSE UNION {
           {[history |-> SubSeq(feed, from + 1, Min(from + n, head)),
             historyId |-> h,
             nextPageToken |-> IF from + n < head THEN from + n ELSE None] :
              h \in {Min(from + n, head), head}} :
           n \in 1..MaxRecords}

(***************************************************************************)
(* The sync thread                                                         *)
(***************************************************************************)
NewAttempt(start) ==
    [start |-> start, via |-> "incremental", listCalls |-> 0, fullSyncs |-> 0,
     pages |-> 0, lastHid |-> None, listErr |-> NoErr, fetchErr |-> NoErr,
     bodyErr |-> NoErr, undone |-> FALSE, crashedAt |-> "idle", crashIdx |-> 0,
     listed |-> <<>>, listedAt |-> None]

AllFetched == [m \in MsgIds |-> "200"]

\* The message ids a page's 'message added' events name.
AddedIds(page) ==
    UNION {{page.history[i].messagesAdded[j].message.id :
                j \in DOMAIN page.history[i].messagesAdded} :
           i \in DOMAIN page.history}

RECURSIVE upsert_labels(_, _, _)
upsert_labels(conn, labels, i) ==
    IF i > Len(labels) THEN conn
    ELSE upsert_labels(
            upsert_label(conn, labels[i].id, labels[i].name, labels[i].type),
            labels, i + 1)

\* A store as one full sync of a mailbox holding m1 leaves it, cursor 0.
SyncedStore ==
    transaction_exit(
        set_metadata(
            store_parsed(
                transaction_exit(
                    upsert_labels([committed |-> EmptyStore, working |-> EmptyStore],
                                  RemoteLabels, 1), NoErr),
                parse_gmail_response("m1", RemoteMessage("m1"),
                                     RemoteMessage("m1").labelIds)),
            "history_id", 0), NoErr)

\* app.py, lines 30-35: no session yet, no worker, nothing posted, nothing
\* read from the store.
NewApp ==
    [sync_service |-> FALSE, workers |-> <<>>, triggers |-> 0, posted |-> <<>>,
     view |-> <<>>]

Init ==
    /\ db \in {[committed |-> EmptyStore, working |-> EmptyStore], SyncedStore}
    /\ pc = "idle"
    /\ history_id = None
    /\ resp = NoPage
    /\ idx = 1
    /\ msgs = <<>>
    /\ result = SyncResult(0, 0, 0)
    /\ outcome = "none"
    /\ err = NoErr
    /\ att = NewAttempt(None)
    /\ attempts = 0
    /\ page_token = None
    /\ feed \in Feeds
    /\ head = 0
    /\ gone = AllFetched
    /\ app = NewApp

\* The frame of incremental_sync is left: its locals are dead.
LocalsDead ==
    /\ history_id' = None
    /\ resp' = NoPage
    /\ idx' = 1
    /\ msgs' = <<>>
    /\ page_token' = None
    /\ gone' = AllFetched

\* incremental_sync, lines 99-110.
StartSync ==
    /\ pc = "idle"
    /\ attempts < MaxAttempts
    /\ attempts' = attempts + 1
    /\ history_id' = get_metadata(db.committed, "history_id")
    /\ result' = SyncResult(0, 0, 0)
    /\ att' = [NewAttempt(history_id') EXCEPT
                !.via = IF history_id' = None THEN "nocursor" ELSE "incremental"]
    /\ pc' = IF history_id' = None THEN "sync_labels" ELSE "list_history"
    /\ outcome' = "none"
    /\ err' = NoErr
    /\ resp' = NoPage
    /\ idx' = 1
    /\ msgs' = <<>>
    /\ page_token' = None
    /\ UNCHANGED <<db, feed, head, gone>>
    /\ UNCHANGED app

\* list_history raises an HttpError: lines 114-116, to the except clause.
ListHistoryFails ==
    /\ pc = "list_history"
    /\ \E status \in HttpStatuses :
        /\ err' = status
        /\ att' = [att EXCEPT !.listCalls = @ + 1, !.listErr = status]
    /\ pc' = "except"
    /\ UNCHANGED <<db, history_id, resp, idx, msgs, result, outcome, attempts,
                   page_token, feed, head, gone>>
    /\ UNCHANGED app

\* list_history answers a page: lines 114-122; an empty page ends the loop
\* and the attempt (lines 119-120, 134-137).  The remote side also settles
\* what get_message will answer for the messages the page names.
ListHistory ==
    /\ pc = "list_history"
    /\ \E page \in list_history(history_id, page_token) :
        /\ att' = [att EXCEPT !.listCalls = @ + 1]
        /\ IF page.history = <<>>
           THEN /\ pc' = "idle"
                /\ outcome' = "returned"
                /\ LocalsDead
                /\ UNCHANGED db
           ELSE /\ pc' = "page"
                /\ outcome' = outcome
                /\ db' = get_connection(db)
                /\ resp' = page
                /\ idx' = 1
                /\ \E answers \in [MsgIds -> FetchAnswers] :
                    /\ \A m \in MsgIds \ AddedIds(page) : answers[m] = "200"
                    /\ gone' = answers
                /\ UNCHANGED <<history_id, msgs, page_token>>
    /\ UNCHANGED <<result, err, attempts, feed, head>>
    /\ UNCHANGED app

\* get_message for each 'message added' event of a record.
FetchFor(record) ==
    [i \in DOMAIN record.messagesAdded |-> gone[record.messagesAdded[i].message.id]]

\* One turn of the loop of line 123, and the exit of the transaction when
\* the record raises.
ProcessRecord ==
    /\ pc = "page"
    /\ idx <= Len(resp.history)
    /\ LET r == process_history_record(db, resp.history[idx], result,
                                       FetchFor(resp.history[idx])) IN
        IF r.raised = NoErr
        THEN /\ db' = r.conn
             /\ result' = r.result
             /\ idx' = idx + 1
             /\ UNCHANGED <<pc, err, att, history_id, resp, msgs, page_token, gone>>
        ELSE /\ db' = transaction_exit(r.conn, r.raised)
             /\ result' = SyncResult(0, 0, 0)
             /\ pc' = "except"
             /\ err' = transaction_reraise(r.raised)
             /\ att' = [att EXCEPT !.fetchErr = r.raised, !.bodyErr = r.raised,
                                   !.undone = (r.conn.working # r.conn.committed)]
             /\ LocalsDead
    /\ UNCHANGED <<outcome, attempts, feed, head>>
    /\ UNCHANGED app

\* The faulty variant of line 127 that stores the cursor the attempt started from.
SetCursorStale ==
    /\ pc = "page"
    /\ idx > Len(resp.history)
    /\ db' = set_metadata(db, "history_id", history_id)
    /\ pc' = "page_commit"
    /\ UNCHANGED <<history_id, resp, idx, msgs, result, outcome, err, att, attempts,
                   page_token, feed, head, gone>>
    /\ UNCHANGED app

\* Line 127.
SetCursor ==
    /\ pc = "page"
    /\ idx > Len(resp.history)
    /\ db' = set_metadata(db, "history_id", resp.historyId)
    /\ pc' = "page_commit"
    /\ UNCHANGED <<history_id, resp, idx, msgs, result, outcome, err, att, attempts,
                   page_token, feed, head, gone>>
    /\ UNCHANGED app

\* The faulty variant of lines 130-137 that forgets the page token.
CommitPageNoToken ==
    /\ pc = "page_commit"
    /\ db' = transaction_exit(db, NoErr)
    /\ att' = [att EXCEPT !.pages = @ + 1, !.lastHid = resp.historyId]
    /\ IF resp.nextPageToken = None
       THEN /\ pc' = "idle"
            /\ outcome' = "returned"
            /\ LocalsDead
       ELSE /\ pc' = "list_history"
            /\ outcome' = outcome
            /\ page_token' = None
            /\ resp' = NoPage
            /\ idx' = 1
            /\ gone' = AllFetched
            /\ UNCHANGED <<history_id, msgs>>
    /\ UNCHANGED <<result, err, attempts, feed, head>>
    /\ UNCHANGED app

\* The normal exit of the transaction of line 122, then lines 130-137.
CommitPage ==
    /\ pc = "page_commit"
    /\ db' = transaction_exit(db, NoErr)
    /\ att' = [att EXCEPT !.pages = @ + 1, !.lastHid = resp.historyId]
    /\ IF resp.nextPageToken = None
       THEN /\ pc' = "idle"
            /\ outcome' = "returned"
            /\ LocalsDead
       ELSE /\ pc' = "list_history"
            /\ outcome' = outcome
            /\ page_token' = resp.nextPageToken
            /\ resp' = NoPage
            /\ idx' = 1
            /\ gone' = AllFetched
            /\ UNCHANGED <<history_id, msgs>>
    /\ UNCHANGED <<result, err, attempts, feed, head>>
    /\ UNCHANGED app

\* The faulty variant of line 140 that takes only 410 for an expired cursor.
HandleHttpErrorGoneOnly ==
    /\ pc = "except"
    /\ IF err = "410"
       THEN /\ pc' = "sync_labels"
            /\ att' = [att EXCEPT !.via = "expired"]
            /\ outcome' = outcome
       ELSE /\ pc' = "idle"
            /\ att' = att
            /\ outcome' = "raised"
    /\ UNCHANGED <<db, history_id, resp, idx, msgs, result, err, attempts,
                   page_token, feed, head, gone>>
    /\ UNCHANGED app

\* The faulty variant of lines 139-146 that answers every HttpError by a full sync.
HandleHttpErrorAlwaysFull ==
    /\ pc = "except"
    /\ pc' = "sync_labels"
    /\ att' = [att EXCEPT !.via = "expired"]
    /\ UNCHANGED <<db, history_id, resp, idx, msgs, result, outcome, err, attempts,
                   page_token, feed, head, gone>>
    /\ UNCHANGED app

\* Lines 139-146.
HandleHttpError ==
    /\ pc = "except"
    /\ IF err \in {"404", "410"}
       THEN /\ pc' = "sync_labels"
            /\ att' = [att EXCEPT !.via = "expired"]
            /\ outcome' = outcome
       ELSE /\ pc' = "idle"
            /\ att' = att
            /\ outcome' = "raised"
    /\ UNCHANGED <<db, history_id, resp, idx, msgs, result, err, attempts,
                   page_token, feed, head, gone>>
    /\ UNCHANGED app

\* initial_sync, lines 64-66: sync_labels (lines 148-153) in a transaction
\* of its own.
SyncLabels ==
    /\ pc = "sync_labels"
    /\ att' = [att EXCEPT !.fullSyncs = @ + 1]
    /\ db' = transaction_exit(upsert_labels(get_connection(db), RemoteLabels, 1), NoErr)
    /\ pc' = "list_messages"
    /\ UNCHANGED <<history_id, resp, idx, msgs, result, outcome, err, attempts,
                   page_token, feed, head, gone>>
    /\ UNCHANGED app

\* list_labels raises: nothing is written and initial_sync raises.
SyncLabelsFails ==
    /\ pc = "sync_labels"
    /\ att' = [att EXCEPT !.fullSyncs = @ + 1]
    /\ err' = "500"
    /\ outcome' = "raised"
    /\ pc' = "idle"
    /\ UNCHANGED <<db, history_id, resp, idx, msgs, result, attempts,
                   page_token, feed, head, gone>>
    /\ UNCHANGED app

\* Lines 68-72.
ListMessages ==
    /\ pc = "list_messages"
    /\ \E messages \in MessageLists : msgs' = messages
    /\ db' = get_connection(db)
    /\ idx' = 1
    /\ pc' = "init_msg"
    /\ UNCHANGED <<history_id, resp, result, outcome, err, att, attempts,
                   page_token, feed, head, gone>>
    /\ UNCHANGED app

ListMessagesFails ==
    /\ pc = "list_messages"
    /\ err' = "500"
    /\ outcome' = "raised"
    /\ pc' = "idle"
    /\ UNCHANGED <<db, history_id, resp, idx, msgs, result, att, attempts,
                   page_token, feed, head, gone>>
    /\ UNCHANGED app

\* The faulty variant of lines 72-88 that keeps the messages written before the
\* one that fails.
InitialSyncMessageKeepsWritten ==
    /\ pc = "init_msg"
    /\ idx <= Len(msgs)
    /\ \E status \in {"200", "404", "500"} :
        IF status = "200"
        THEN /\ db' = store_parsed(db,
                        parse_gmail_response(msgs[idx], RemoteMessage(msgs[idx]),
                                             RemoteMessage(msgs[idx]).labelIds))
             /\ idx' = idx + 1
             /\ UNCHANGED <<pc, err, outcome, msgs, att>>
        ELSE /\ db' = transaction_exit(db, NoErr)
             /\ err' = transaction_reraise(status)
             /\ outcome' = "raised"
             /\ pc' = "idle"
             /\ idx' = 1
             /\ msgs' = <<>>
             /\ att' = [att EXCEPT !.bodyErr = status,
                                   !.undone = (db.working # db.committed)]
    /\ UNCHANGED <<history_id, resp, result, attempts,
                   page_token, feed, head, gone>>
    /\ UNCHANGED app

\* Lines 73-88: one message of the full sync; any error of get_message ends
\* the transaction and the attempt.
InitialSyncMessage ==
    /\ pc = "init_msg"
    /\ idx <= Len(msgs)
    /\ \E status \in {"200", "404", "500"} :
        IF status = "200"
        THEN /\ db' = store_parsed(db,
                        parse_gmail_response(msgs[idx], RemoteMessage(msgs[idx]),
                                             RemoteMessage(msgs[idx]).labelIds))
             /\ idx' = idx + 1
             /\ UNCHANGED <<pc, err, outcome, msgs, att>>
        ELSE /\ db' = transaction_exit(db, status)
             /\ err' = transaction_reraise(status)
             /\ outcome' = "raised"
             /\ pc' = "idle"
             /\ idx' = 1
             /\ msgs' = <<>>
             /\ att' = [att EXCEPT !.bodyErr = status,
                                   !.undone = (db.working # db.committed)]
    /\ UNCHANGED <<history_id, resp, result, attempts,
                   page_token, feed, head, gone>>
    /\ UNCHANGED app

\* The faulty variant of lines 91-92 that reads the profile and stores nothing.
GetProfileNoCursor ==
    /\ pc = "init_msg"
    /\ idx > Len(msgs)
    /\ pc' = "init_commit"
    /\ idx' = 1
    /\ msgs' = <<>>
    /\ UNCHANGED <<db, err, outcome, att, history_id, resp, result, attempts,
                   page_token, feed, head, gone>>
    /\ UNCHANGED app

\* Lines 91-92.
GetProfile ==
    /\ pc = "init_msg"
    /\ idx > Len(msgs)
    /\ \E answer \in {"200", "500"} :
        IF answer = "200"
        THEN /\ db' = set_metadata(db, "history_id", head)
             /\ pc' = "init_commit"
             /\ UNCHANGED <<err, outcome, att>>
        ELSE /\ db' = transaction_exit(db, answer)
             /\ err' = transaction_reraise(answer)
             /\ outcome' = "raised"
             /\ pc' = "idle"
             /\ att' = [att EXCEPT !.bodyErr = answer,
                                   !.undone = (db.working # db.committed)]
    /\ idx' = 1
    /\ msgs' = <<>>
    /\ UNCHANGED <<history_id, resp, result, attempts,
                   page_token, feed, head, gone>>
    /\ UNCHANGED app

\* The faulty variant of lines 107 and 143 that returns the counts as they are.
CommitInitialNoSentinel ==
    /\ pc = "init_commit"
    /\ db' = transaction_exit(db, NoErr)
    /\ outcome' = "returned"
    /\ pc' = "idle"
    /\ UNCHANGED <<history_id, resp, idx, msgs, result, err, att, attempts,
                   page_token, feed, head, gone>>
    /\ UNCHANGED app

\* The normal exit of the transaction of line 72, then line 107 or 143.
CommitInitial ==
    /\ pc = "init_commit"
    /\ db' = transaction_exit(db, NoErr)
    /\ result' = SyncResult(1, 0, 0)
    /\ outcome' = "returned"
    /\ pc' = "idle"
    /\ UNCHANGED <<history_id, resp, idx, msgs, err, att, attempts,
                   page_token, feed, head, gone>>
    /\ UNCHANGED app

\* The process dies: the open connection is lost with what it had not
\* committed.
Crash ==
    /\ pc # "idle"
    /\ db' = get_connection(db)
    /\ outcome' = "crashed"
    /\ pc' = "idle"
    /\ result' = SyncResult(0, 0, 0)
    /\ err' = NoErr
    /\ att' = [NewAttempt(None) EXCEPT !.crashedAt = pc, !.crashIdx = idx]
    /\ LocalsDead
    /\ UNCHANGED <<attempts, feed, head>>
    /\ UNCHANGED app

\* The mailbox changes: the next record of the feed happens.
RemoteChange ==
    /\ head < Len(feed)
    /\ head' = head + 1
    /\ UNCHANGED <<db, pc, history_id, resp, idx, msgs, result, outcome, err, att,
                   attempts, page_token, feed, gone>>
    /\ UNCHANGED app

Next ==
    \/ RemoteChange
    \/ StartSync
    \/ ListHistoryFails
    \/ ListHistory
    \/ ProcessRecord
    \/ SetCursor
    \/ CommitPage
    \/ HandleHttpError
    \/ SyncLabels
    \/ SyncLabelsFails
    \/ ListMessages
    \/ ListMessagesFails
    \/ InitialSyncMessage
    \/ GetProfile
    \/ CommitInitial
    \/ Crash

Spec == Init /\ [][Next]_vars

(***************************************************************************)
(* A change page applied to a store, then applied again: lines 122-127 on  *)
(* every page of up to MaxRecords records, from the stores a sync leaves.  *)
(***************************************************************************)
Records == {RecAdded, RecAddedTwo, RecLabels, RecLabelsUnread, RecDeleted,
            RecAddedDeleted}

ChangePages ==
    [history : UNION {[1..n -> Records] : n \in 1..MaxRecords},
     historyId : {1}, nextPageToken : {None}]

\* get_message answers or reports the message gone; the page does not raise.
Fetchable == [MsgIds -> {"200", "404"}]

Applied(store, page, status) ==
    transaction_exit(
        apply_page([committed |-> store, working |-> store], page,
                   SyncResult(0, 0, 0), status).conn, NoErr)

InitApply ==
    /\ db \in {[committed |-> EmptyStore, working |-> EmptyStore], SyncedStore}
             \cup {Applied(SyncedStore.committed, p, AllFetched) : p \in ChangePages}
    /\ pc = "apply"
    /\ resp \in ChangePages
    /\ gone \in Fetchable
    /\ history_id = get_metadata(db.committed, "history_id")
    /\ idx = 1
    /\ msgs = <<>>
    /\ result = SyncResult(0, 0, 0)
    /\ outcome = "none"
    /\ err = NoErr
    /\ att = NewAttempt(history_id)
    /\ attempts = 0
    /\ page_token = None
    /\ feed = <<>>
    /\ head = 0
    /\ app = NewApp

\* The page is applied and committed; result is what the attempt returns.
ApplyOnce ==
    /\ pc = "apply"
    /\ db' = Applied(db.committed, resp, gone)
    /\ result' = apply_page(get_connection(db), resp, result, gone).result
    /\ pc' = "applied"
    /\ UNCHANGED <<history_id, resp, idx, msgs, outcome, err, att, attempts,
                   page_token, feed, head, gone, app>>

\* The same page is applied to the store the first application left; the
\* committed store is kept to compare.
ApplyAgain ==
    /\ pc = "applied"
    /\ db' = apply_page(get_connection(db), resp, SyncResult(0, 0, 0), gone).conn
    /\ pc' = "applied_twice"
    /\ UNCHANGED <<history_id, resp, idx, msgs, result, outcome, err, att, attempts,
                   page_token, feed, head, gone, app>>

NextApply == ApplyOnce \/ ApplyAgain

SpecApply == InitApply /\ [][NextApply]_vars

(***************************************************************************)
(* The display layer reads the store while a page's transaction is open:   *)
(* lines 122-137 of sync.py step by step, and the read methods of db.py    *)
(* at any moment.                                                          *)
(***************************************************************************)
\* A store with the cursor c: the one a full sync leaves, and the one the
\* page of RecAddedTwo then leaves.
StoreAt(c) ==
    IF c = 0 THEN SyncedStore
    ELSE Applied(SyncedStore.committed,
                 [history |-> <<RecAddedTwo>>, historyId |-> c, nextPageToken |-> None],
                 AllFetched)

InitRead ==
    /\ history_id \in {0, 1}
    /\ db = get_connection(StoreAt(history_id))
    /\ pc = "page"
    /\ resp \in ChangePages
    /\ gone \in Fetchable
    /\ idx = 1
    /\ msgs = <<>>
    /\ result = SyncResult(0, 0, 0)
    /\ outcome = "none"
    /\ err = NoErr
    /\ att = [NewAttempt(history_id) EXCEPT !.listCalls = 1]
    /\ attempts = 1
    /\ page_token = None
    /\ feed = <<>>
    /\ head = 0
    /\ app = NewApp

\* The display layer calls the read methods.
ReadStore ==
    /\ app' = [app EXCEPT !.view = read_methods(db)]
    /\ UNCHANGED syncVars

NextRead ==
    \/ ProcessRecord
    \/ SetCursor
    \/ CommitPage
    \/ ReadStore

SpecRead == InitRead /\ [][NextRead]_vars

(***************************************************************************)
(* One page of an incremental sync, event by event: lines 122-137 of       *)
(* sync.py on the pages of ChangePages and on pages of one label event,    *)
(* with messages whose content the normaliser cannot read.                 *)
(***************************************************************************)
\* get_message answers, and parse_gmail_response raises on the content (no
\* "raw" field, or a raw that is not base64): an exception that is no HttpError.
Malformed == "malformed"

ParseAnswers == [MsgIds -> {"200", "404", Malformed}]

LabelLists == {<<"INBOX">>, <<"UNREAD">>, <<"INBOX", "UNREAD">>}

RecLabelAdded(m, labelIds) ==
    History(<<>>, <<HistoryEvent(HistoryMessage(m, <<>>), labelIds)>>, <<>>, <<>>)

RecLabelRemoved(m, labelIds) ==
    History(<<>>, <<>>, <<HistoryEvent(HistoryMessage(m, <<>>), labelIds)>>, <<>>)

LabelPages ==
    {[history |-> <<r>>, historyId |-> 1, nextPageToken |-> None] :
        r \in {RecLabelAdded(m, ls) : m \in MsgIds, ls \in LabelLists}
                \cup {RecLabelRemoved(m, ls) : m \in MsgIds, ls \in LabelLists}}

\* A record that adds and removes UNREAD on m1, and a record that adds m1
\* (with INBOX), adds UNREAD on it and deletes it.
RecLabelBoth ==
    History(<<>>,
            <<HistoryEvent(HistoryMessage("m1", <<>>), <<"INBOX", "UNREAD">>)>>,
            <<HistoryEvent(HistoryMessage("m1", <<>>), <<"UNREAD">>)>>, <<>>)

RecAddedAndDeleted ==
    History(<<HistoryEvent(HistoryMessage("m1", <<"INBOX">>), <<>>)>>,
            <<HistoryEvent(HistoryMessage("m1", <<>>), <<"UNREAD">>)>>, <<>>,
            <<HistoryEvent(HistoryMessage("m1", <<>>), <<>>)>>)

OrderPages ==
    [history : UNION {[1..n -> {RecLabelBoth, RecAddedAndDeleted}] : n \in 1..MaxRecords},
     historyId : {1}, nextPageToken : {None}]

InitPage ==
    /\ history_id \in {0, 1}
    /\ db = get_connection(StoreAt(history_id))
    /\ pc = "page"
    /\ resp \in ChangePages \cup LabelPages \cup OrderPages
    /\ gone \in ParseAnswers
    /\ \A m \in MsgIds \ AddedIds(resp) : gone[m] = "200"
    /\ idx = 1
    /\ msgs = <<>>
    /\ result = SyncResult(0, 0, 0)
    /\ outcome = "none"
    /\ err = NoErr
    /\ att = [NewAttempt(history_id) EXCEPT !.listCalls = 1]
    /\ attempts = 1
    /\ page_token = None
    /\ feed = <<>>
    /\ head = 0
    /\ app = NewApp

\* An exception that is no HttpError passes the except clause of lines
\* 139-146 and leaves incremental_sync.
PropagateError ==
    /\ pc = "except"
    /\ err \notin HttpStatuses
    /\ pc' = "idle"
    /\ outcome' = "raised"
    /\ UNCHANGED <<db, history_id, resp, idx, msgs, result, err, att, attempts,
                   page_token, feed, head, gone>>
    /\ UNCHANGED app

NextPage ==
    \/ ProcessRecord
    \/ SetCursor
    \/ CommitPage
    \/ PropagateError

SpecPage == InitPage /\ [][NextPage]_vars

(***************************************************************************)
(* The store on its own: committed writes in any order and the read        *)
(* methods, as the tests of test_db.py call them.  A behaviour works on    *)
(* one table: the labels, the contacts, or the messages of a label.        *)
(***************************************************************************)
MaxObservations == 2

QueryLabelIds == {"INBOX", "USER_1", "USER_2"}
QueryLabelNames == {"Inbox", "A-Label", "Z-Label"}
LabelTypes == {"system", "user"}
QueryAddresses == {"a@x", "b@x", "c@x"}
QueryMsgIds == MsgIds \cup {"m3"}
Timestamps == {1, 2}
Limits == {1, 2, DefaultLimit}
Offsets == {0, 1, 2}

\* The messages upsert_email is given.
QueryEmails ==
    {[id |-> m, sender |-> "a@x", timestamp |-> t,
      is_read |-> ~(\E i \in DOMAIN ls : ls[i] = "UNREAD"), labels |-> ls] :
        m \in QueryMsgIds, t \in Timestamps,
        ls \in {<<"INBOX">>, <<"INBOX", "UNREAD">>}}

\* with db.transaction() as conn: one write, committed.
Committed(conn) == transaction_exit(conn, NoErr)

NoCall == [call |-> "none", args |-> <<>>, rows |-> <<>>]

InitQuery ==
    /\ pc \in {"labels", "contacts", "emails"}
    /\ db = [committed |-> EmptyStore, working |-> EmptyStore]
    /\ history_id = None
    /\ resp = NoPage
    /\ idx = 1
    /\ msgs = <<>>
    /\ result = SyncResult(0, 0, 0)
    /\ outcome = "none"
    /\ err = NoErr
    /\ att = NewAttempt(None)
    /\ attempts = 0
    /\ page_token = None
    /\ feed = <<>>
    /\ head = 0
    /\ gone = AllFetched
    /\ app = [NewApp EXCEPT !.view = NoCall]

QueryFrame ==
    UNCHANGED <<pc, history_id, resp, idx, msgs, result, outcome, err, att, attempts,
                page_token, feed, head, gone>>

UpsertLabel ==
    /\ pc = "labels"
    /\ \E id \in QueryLabelIds, name \in QueryLabelNames, type \in LabelTypes :
        /\ db' = Committed(upsert_label(get_connection(db), id, name, type))
        /\ app' = [app EXCEPT !.view =
                     [call |-> "upsert_label", args |-> <<id, name, type>>, rows |-> <<>>]]
    /\ QueryFrame

GetLabels ==
    /\ pc = "labels"
    /\ app' = [app EXCEPT !.view =
                 [call |-> "get_labels", args |-> <<>>,
                  rows |-> get_labels(get_connection(db).working)]]
    /\ UNCHANGED db
    /\ QueryFrame

UpsertContact ==
    /\ pc = "contacts"
    /\ \E email \in QueryAddresses, timestamp \in Timestamps :
        /\ email \in DOMAIN db.committed.contacts =>
              db.committed.contacts[email].interaction_count < MaxObservations
        /\ db' = Committed(upsert_contact(get_connection(db), email, "", timestamp))
    /\ app' = [app EXCEPT !.view = NoCall]
    /\ QueryFrame

GetTopContacts ==
    /\ pc = "contacts"
    /\ \E limit \in Limits :
        app' = [app EXCEPT !.view =
                 [call |-> "get_top_contacts", args |-> <<limit>>,
                  rows |-> get_top_contacts(get_connection(db).working, limit)]]
    /\ UNCHANGED db
    /\ QueryFrame

UpsertEmail ==
    /\ pc = "emails"
    /\ \E email \in QueryEmails :
        db' = Committed(upsert_email(get_connection(db), email))
    /\ app' = [app EXCEPT !.view = NoCall]
    /\ QueryFrame

RemoveEmail ==
    /\ pc = "emails"
    /\ \E m \in QueryMsgIds :
        db' = Committed(remove_email(get_connection(db), m))
    /\ app' = [app EXCEPT !.view = NoCall]
    /\ QueryFrame

GetEmails ==
    /\ pc = "emails"
    /\ \E label_id \in LabelIds, limit \in Limits, offset \in Offsets :
        app' = [app EXCEPT !.view =
                 [call |-> "get_emails", args |-> <<label_id, limit, offset>>,
                  rows |-> get_emails(get_connection(db).working, label_id,
                                      limit, offset)]]
    /\ UNCHANGED db
    /\ QueryFrame

NextQuery ==
    \/ UpsertLabel
    \/ GetLabels
    \/ UpsertContact
    \/ GetTopContacts
    \/ UpsertEmail
    \/ RemoveEmail
    \/ GetEmails

SpecQuery == InitQuery /\ [][NextQuery]_vars

(***************************************************************************)
(* app.py: the sync trigger.  run_worker(thread=True, exclusive=True)      *)
(* cancels the workers of the group and starts the new one; a cancelled    *)
(* thread worker's function keeps running, only its result is dropped.     *)
(***************************************************************************)
InitApp ==
    /\ db = [committed |-> EmptyStore, working |-> EmptyStore]
    /\ pc = "idle"
    /\ history_id = None
    /\ resp = NoPage
    /\ idx = 1
    /\ msgs = <<>>
    /\ result = SyncResult(0, 0, 0)
    /\ outcome = "none"
    /\ err = NoErr
    /\ att = NewAttempt(None)
    /\ attempts = 0
    /\ page_token = None
    /\ feed = <<>>
    /\ head = 0
    /\ gone = AllFetched
    /\ app = NewApp

\* initialize_session, lines 47-53.
InitializeSession ==
    /\ ~app.sync_service
    /\ app' = [app EXCEPT !.sync_service = TRUE]
    /\ UNCHANGED syncVars

\* trigger_sync without a session, lines 63-64.
TriggerSyncNoSession ==
    /\ ~app.sync_service
    /\ app.triggers < MaxTriggers
    /\ app' = [app EXCEPT !.triggers = @ + 1]
    /\ UNCHANGED syncVars

\* trigger_sync, lines 65-68: a timer tick or a manual call.  The workers of
\* the group that have not finished are cancelled, a new worker starts
\* incremental_sync on a thread, and the handler waits for it.
TriggerSync ==
    /\ app.sync_service
    /\ app.triggers < MaxTriggers
    /\ app' = [app EXCEPT
                !.triggers = @ + 1,
                !.workers = Append(
                    [i \in DOMAIN @ |->
                        IF @[i].thread = "running"
                        THEN [@[i] EXCEPT !.cancelled = TRUE] ELSE @[i]],
                    [thread |-> "running", cancelled |-> FALSE, handler |-> "waiting"])]
    /\ UNCHANGED syncVars

\* The thread of a worker ends: incremental_sync returns or raises.
WorkerEnds ==
    /\ \E i \in DOMAIN app.workers, how \in {"returned", "raised"} :
        /\ app.workers[i].thread = "running"
        /\ app' = [app EXCEPT !.workers[i].thread = how]
    /\ UNCHANGED syncVars

\* Lines 68-69: worker.wait() ends.  It raises for a cancelled or failed
\* worker; otherwise the handler posts SyncComplete with the result.
HandlerResumes ==
    /\ \E i \in DOMAIN app.workers :
        /\ app.workers[i].handler = "waiting"
        /\ app.workers[i].cancelled \/ app.workers[i].thread # "running"
        /\ app' = IF ~app.workers[i].cancelled /\ app.workers[i].thread = "returned"
                  THEN [app EXCEPT !.workers[i].handler = "posted",
                                   !.posted = Append(@, i)]
                  ELSE [app EXCEPT !.workers[i].handler = "raised"]
    /\ UNCHANGED syncVars

NextApp ==
    \/ InitializeSession
    \/ TriggerSyncNoSession
    \/ TriggerSync
    \/ WorkerEnds
    \/ HandlerResumes

SpecApp == InitApp /\ [][NextApp]_vars

(***************************************************************************)
(* Properties                                                              *)
(***************************************************************************)
Cursor(store) == get_metadata(store, "history_id")

InPage == pc \in {"page", "page_commit"}
InInitial == pc \in {"init_msg", "init_commit"}
InFullSync == pc \in {"sync_labels", "list_messages", "init_msg", "init_commit"}
InIncremental == pc \in {"list_history", "page", "page_commit"}

\* The working store a page leaves when every record and the cursor are applied.
WholePage == apply_page(get_connection(db), resp, SyncResult(0, 0, 0), gone).conn.working

\* C1: the committed cursor changes only in the step that commits a whole
\* page (every record applied, then the page's cursor) or a whole full-sync
\* batch, and that step commits the data changes with it; no other step, a
\* failure or a crash in the middle of a page included, changes it.
C1_CursorOnlyWithWholePage ==
    [][Cursor(db'.committed) # Cursor(db.committed) =>
        \/ /\ pc = "page_commit"
           /\ db.working = WholePage
           /\ db'.committed = db.working
           /\ Cursor(db'.committed) = resp.historyId
        \/ /\ pc = "init_commit"
           /\ att.fullSyncs = 1
           /\ db'.committed = db.working]_vars

\* C1 witness: a crash in the middle of a page, one record applied and not
\* committed, with a cursor stored by an earlier page.
C1_Witness ==
    /\ outcome = "crashed"
    /\ att.crashedAt = "page"
    /\ att.crashIdx = 2
    /\ Cursor(db.committed) >= 1

\* C2: a writer scope that ends normally commits all its writes in one step;
\* one whose body raises leaves the committed store as it was and lets out
\* the exception its body raised; nothing is visible before the scope ends.
C2_TransactionAtomic ==
    [][(InPage \/ InInitial) =>
        IF pc' \in {"page", "page_commit", "init_msg", "init_commit"}
        THEN db'.committed = db.committed
        ELSE IF outcome' = "crashed" THEN db'.committed = db.committed
        ELSE IF pc' = "except" \/ outcome' = "raised"
        THEN /\ db'.committed = db.committed
             /\ db'.working = db.committed
             /\ err' = att'.bodyErr
             /\ err' # NoErr
        ELSE db'.committed = db.working]_vars

\* C2 witness: a body that raised after it had written, its writes undone.
C2_Witness ==
    /\ pc = "except"
    /\ att.undone
    /\ err = "500"
    /\ db.working = db.committed

C4_ExpiredCursorFullSync ==
    att.listErr \in {"404", "410"} =>
        /\ ~InIncremental
        /\ att.fullSyncs <= 1
        /\ InFullSync => att.via = "expired"
        /\ (pc = "idle" /\ outcome \in {"returned", "raised"}) => att.fullSyncs = 1
        /\ (pc = "idle" /\ outcome = "returned") => any_changes(result)

\* C4 witness: an attempt whose cursor was rejected with 410 has returned.
C4_Witness ==
    /\ pc = "idle"
    /\ outcome = "returned"
    /\ att.listErr = "410"
    /\ att.fullSyncs = 1

\* C5: an attempt that finds no cursor never requests the change feed,
\* runs the full sync once, and returns the sentinel result added = 1.
C5_NoCursorFullSync ==
    att.via = "nocursor" =>
        /\ att.start = None
        /\ att.listCalls = 0
        /\ ~InIncremental
        /\ pc # "except"
        /\ att.fullSyncs <= 1
        /\ (pc = "idle" /\ outcome = "returned") =>
              (att.fullSyncs = 1 /\ result = SyncResult(1, 0, 0) /\ any_changes(result))

\* C5 witness: an attempt that started without a cursor has returned.
C5_Witness ==
    /\ pc = "idle"
    /\ outcome = "returned"
    /\ att.via = "nocursor"
    /\ Cursor(db.committed) # None

\* C6: when the change feed answers another status, the attempt raises that
\* error, runs no full sync, and the cursor is the one of the last page it
\* committed (the one it started from when it committed none).
C6_OtherListErrorPropagates ==
    (att.listErr # NoErr /\ att.listErr \notin {"404", "410"}) =>
        /\ pc \in {"except", "idle"}
        /\ pc = "idle" => (outcome = "raised" /\ err = att.listErr)
        /\ att.fullSyncs = 0
        /\ Cursor(db.committed) = IF att.pages > 0 THEN att.lastHid ELSE att.start

\* C6 witness: the second request of an attempt failed with 500 after the
\* first page was committed.
C6_Witness ==
    /\ pc = "idle"
    /\ outcome = "raised"
    /\ err = "500"
    /\ att.listErr = "500"
    /\ att.pages = 1

\* The page without the 'message added' events whose fetch answers 404.
Without404(page) ==
    [page EXCEPT !.history =
        [i \in DOMAIN page.history |->
            [page.history[i] EXCEPT !.messagesAdded =
                SelectSeq(@, LAMBDA e : gone[e.message.id] # "404")]]]

Has404 == \E m \in AddedIds(resp) : gone[m] = "404"

\* C7: a 404 of get_message never ends the page: the error that ends an
\* attempt is never a message's 404, and a page with such a message reaches
\* its commit with exactly the writes of the page without that message,
\* cursor included.
C7_NotFoundSkipsOneMessage ==
    /\ att.fetchErr # "404"
    /\ (pc = "page_commit" /\ Has404) =>
          /\ db.working =
                apply_page(get_connection(db), Without404(resp),
                           SyncResult(0, 0, 0), AllFetched).conn.working
          /\ Cursor(db.working) = resp.historyId

\* C7 witness: m1 is gone, and m2 of the same record is written with the
\* record's label event, the page ready to commit.
C7_Witness ==
    /\ pc = "page_commit"
    /\ gone["m1"] = "404"
    /\ "m2" \in DOMAIN db.working.emails
    /\ "m2" \notin DOMAIN db.committed.emails
    /\ <<"m2", "UNREAD">> \in db.working.email_labels

\* C8 as claimed: a get_message failure other than 404 ends the attempt with
\* that error, and no full sync runs.
C8_FetchErrorPropagates ==
    (att.fetchErr # NoErr /\ att.fetchErr # "404") =>
        /\ att.fullSyncs = 0
        /\ ~InFullSync
        /\ pc = "idle" => (outcome = "raised" /\ err = att.fetchErr)

\* C9 as claimed: a page applied a second time leaves the whole store,
\* contacts and their interaction counts included, as the first left it.
C9_PageIdempotent ==
    pc = "applied_twice" => db.working = db.committed

\* What the second application keeps: messages, labels, memberships and
\* the cursor.
C9_IdempotentButContacts ==
    pc = "applied_twice" =>
        [db.working EXCEPT !.contacts = EmptyFn]
            = [db.committed EXCEPT !.contacts = EmptyFn]

Running == {i \in DOMAIN app.workers : app.workers[i].thread = "running"}

\* C10 as claimed: at most one incremental_sync runs at any time, and a
\* trigger that finds one running starts no other.
C10_OneSyncInFlight ==
    Cardinality(Running) <= 1

\* The SyncComplete messages posted for worker i.
PostedFor(i) == {k \in DOMAIN app.posted : app.posted[k] = i}

\* C11 as claimed: once the handler of a trigger that started an attempt is
\* over, exactly one SyncComplete has been posted for that attempt, whether
\* the attempt returned or raised.
C11_OneEventPerAttempt ==
    \A i \in DOMAIN app.workers :
        app.workers[i].handler # "waiting" => Cardinality(PostedFor(i)) = 1

\* What the handler does keep: an event is posted only for an attempt that
\* has returned, at most once, and none without an attempt.
C11_EventOnlyAfterReturn ==
    /\ \A k \in DOMAIN app.posted :
          /\ app.posted[k] \in DOMAIN app.workers
          /\ app.workers[app.posted[k]].thread = "returned"
    /\ \A i \in DOMAIN app.workers : Cardinality(PostedFor(i)) <= 1
    /\ ~app.sync_service => app.posted = <<>>

\* The message ids a page's 'message deleted' events name.
DeletedIds(page) ==
    UNION {{page.history[i].messagesDeleted[j].message.id :
                j \in DOMAIN page.history[i].messagesDeleted} :
           i \in DOMAIN page.history}

\* C12: when a page whose added and deleted message ids are distinct is
\* committed, every message of a 'message added' event whose fetch answered
\* is in the committed store and every message of a 'message deleted' event
\* is not.
C12_AddedPresentDeletedAbsent ==
    [][(/\ pc = "page_commit"
        /\ pc' # "page_commit"
        /\ outcome' # "crashed"
        /\ AddedIds(resp) \cap DeletedIds(resp) = {}) =>
          /\ \A m \in AddedIds(resp) :
                gone[m] = "200" => m \in DOMAIN db'.committed.emails
          /\ \A m \in DeletedIds(resp) : m \notin DOMAIN db'.committed.emails]_vars

\* C12 witness: a page that adds m1 and deletes m2, which the store held, is
\* ready to commit with m1 written and m2 removed.
C12_Witness ==
    /\ pc = "page_commit"
    /\ resp.history = <<RecAddedDeleted>>
    /\ gone["m1"] = "200"
    /\ "m2" \in DOMAIN db.committed.emails
    /\ "m2" \notin DOMAIN db.working.emails
    /\ "m1" \in DOMAIN db.working.emails

\* The 'message added' events of a page whose message was fetched and stored.
StoredEvents(page) ==
    UNION {{<<i, j>> : j \in {k \in DOMAIN page.history[i].messagesAdded :
                                gone[page.history[i].messagesAdded[k].message.id] = "200"}} :
           i \in DOMAIN page.history}

AddedEvents(page) ==
    UNION {{<<i, j>> : j \in DOMAIN page.history[i].messagesAdded} :
           i \in DOMAIN page.history}

DeletedEvents(page) ==
    UNION {{<<i, j>> : j \in DOMAIN page.history[i].messagesDeleted} :
           i \in DOMAIN page.history}

LabelEvents(page) ==
    UNION {{<<i, "added", j>> : j \in DOMAIN page.history[i].labelsAdded}
             \cup {<<i, "removed", j>> : j \in DOMAIN page.history[i].labelsRemoved} :
           i \in DOMAIN page.history}

\* C13 as claimed: the result of an attempt that applied one page reports
\* added = the number of messages the attempt added to the store, removed =
\* the number of 'message deleted' events, labels_changed = the number of
\* label events, and any_changes is true iff one of the three is not zero.
C13_ResultCounts ==
    pc = "applied" =>
        /\ result.added = Cardinality(StoredEvents(resp))
        /\ result.removed = Cardinality(DeletedEvents(resp))
        /\ result.labels_changed = Cardinality(LabelEvents(resp))
        /\ any_changes(result) <=>
              (result.added # 0 \/ result.removed # 0 \/ result.labels_changed # 0)

\* What the result does count: every 'message added' event, stored or
\* skipped, with the other two counts as claimed.
C13_CountsEvents ==
    pc = "applied" =>
        /\ result.added = Cardinality(AddedEvents(resp))
        /\ result.removed = Cardinality(DeletedEvents(resp))
        /\ result.labels_changed = Cardinality(LabelEvents(resp))
        /\ any_changes(result) <=>
              (result.added # 0 \/ result.removed # 0 \/ result.labels_changed # 0)

\* The labels message m carries in a store.
Membership(store, m) == {l \in LabelIds : <<m, l>> \in store.email_labels}

\* The labels a record's events of one kind name for message m.
EventLabels(events, m) ==
    UNION {{events[i].labelIds[j] : j \in DOMAIN events[i].labelIds} :
           i \in {k \in DOMAIN events : events[k].message.id = m}}

\* A record of label events only.
OnlyLabelEvents(record) ==
    /\ record.messagesAdded = <<>>
    /\ record.messagesDeleted = <<>>
    /\ record.labelsAdded # <<>> \/ record.labelsRemoved # <<>>

\* C14: applying a record of label events that removes the labels R and adds
\* the labels A on a stored message m, A and R disjoint, leaves m with the
\* membership (M minus R) union A, M being its membership before.
C14_MembershipEdit ==
    [][(/\ pc = "apply"
        /\ pc' = "applied"
        /\ Len(resp.history) = 1
        /\ OnlyLabelEvents(resp.history[1])) =>
          \A m \in DOMAIN db.committed.emails :
            LET A == EventLabels(resp.history[1].labelsAdded, m)
                R == EventLabels(resp.history[1].labelsRemoved, m)
            IN A \cap R = {} =>
                 Membership(db'.committed, m)
                    = (Membership(db.committed, m) \ R) \cup A]_vars

\* C14 witness: UNREAD removed and INBOX added on the stored message m1,
\* which is left with INBOX and without UNREAD.
C14_Witness ==
    /\ pc = "applied"
    /\ resp.history = <<RecLabels>>
    /\ "m1" \in DOMAIN db.committed.emails
    /\ Membership(db.committed, "m1") = {"INBOX"}

\* C15 as claimed: once a page of one record that deletes message m is
\* committed, no membership row names m.
C15_NoOrphanMembership ==
    (pc = "applied" /\ Len(resp.history) = 1) =>
        \A m \in DeletedIds(resp) : Membership(db.committed, m) = {}

\* C16: an attempt that has returned, by the incremental path, by the full
\* sync for want of a cursor, or by the full sync after an expired cursor,
\* leaves a cursor stored.
C16_SuccessHasCursor ==
    (pc = "idle" /\ outcome = "returned") => Cursor(db.committed) # None

\* C16 witness: an attempt whose cursor was answered 404 has returned by the
\* full sync, and the cursor is the mailbox's current one.
C16_Witness ==
    /\ pc = "idle"
    /\ outcome = "returned"
    /\ att.via = "expired"
    /\ att.listErr = "404"
    /\ Cursor(db.committed) # None
    /\ Cursor(db.committed) # att.start

\* C17: from the end of the label sync to the commit of the batch no step of
\* a full sync changes the committed messages, contacts or cursor, and a
\* step that fails there (listing the messages, fetching or normalising
\* one, reading the profile) ends the attempt with its error raised to the
\* caller and the batch's writes undone.
C17_FullSyncFailureCommitsNothing ==
    [][(pc \in {"list_messages", "init_msg", "init_commit"}
            /\ ~(pc = "init_commit" /\ outcome' = "returned")) =>
          /\ db'.committed.emails = db.committed.emails
          /\ db'.committed.contacts = db.committed.contacts
          /\ Cursor(db'.committed) = Cursor(db.committed)
          /\ outcome' = "raised" =>
                /\ pc' = "idle"
                /\ err' \in HttpStatuses
                /\ db'.working = db'.committed
                /\ Cursor(db'.committed) =
                      IF att.pages > 0 THEN att.lastHid ELSE att.start]_vars

\* C17 witness: a first full sync failed after it had written a message;
\* the error is raised, no cursor and no message are stored.
C17_Witness ==
    /\ pc = "idle"
    /\ outcome = "raised"
    /\ err = "500"
    /\ att.via = "nocursor"
    /\ att.fullSyncs = 1
    /\ att.undone
    /\ Cursor(db.committed) = None
    /\ db.committed.emails = EmptyFn
    /\ db.committed.contacts = EmptyFn

\* What the four read methods return on a store.
ViewOf(store) ==
    [emails |-> [l \in LabelIds |-> get_emails(store, l, DefaultLimit, 0)],
     labels |-> get_labels(store),
     contacts |-> get_top_contacts(store, DefaultLimit),
     history_id |-> get_metadata(store, "history_id")]

OnlyAdded(record, m) ==
    /\ \A k \in DOMAIN record.labelsAdded : record.labelsAdded[k].message.id # m
    /\ \A k \in DOMAIN record.labelsRemoved : record.labelsRemoved[k].message.id # m
    /\ \A k \in DOMAIN record.messagesDeleted : record.messagesDeleted[k].message.id # m

\* C19 as claimed: once a page of one record is committed, a message e the
\* record added (fetched, and named by no other event) is stored with
\* exactly the state of e: its row, and the memberships of e.labels and no
\* others.
C19_UpsertReplaces ==
    (pc = "applied" /\ Len(resp.history) = 1) =>
        \A j \in DOMAIN resp.history[1].messagesAdded :
            LET e == resp.history[1].messagesAdded[j].message
                labels == {e.labelIds[i] : i \in DOMAIN e.labelIds}
            IN (gone[e.id] = "200" /\ OnlyAdded(resp.history[1], e.id)) =>
                 /\ e.id \in DOMAIN db.committed.emails
                 /\ db.committed.emails[e.id].is_read = ("UNREAD" \notin labels)
                 /\ Membership(db.committed, e.id) = labels

\* What upsert_email does keep: the row is the one of e, and e.labels are
\* among the memberships.
C19_UpsertMergesLabels ==
    (pc = "applied" /\ Len(resp.history) = 1) =>
        \A j \in DOMAIN resp.history[1].messagesAdded :
            LET e == resp.history[1].messagesAdded[j].message
                labels == {e.labelIds[i] : i \in DOMAIN e.labelIds}
            IN (gone[e.id] = "200" /\ OnlyAdded(resp.history[1], e.id)) =>
                 /\ e.id \in DOMAIN db.committed.emails
                 /\ db.committed.emails[e.id].is_read = ("UNREAD" \notin labels)
                 /\ labels \subseteq Membership(db.committed, e.id)

Addresses == {RemoteMessage(m).from_addr : m \in MsgIds}

\* The contact observations of addr that the first n messages of the full
\* sync give: message i, observation k of its parse.
Observations(addr, n) ==
    UNION {{<<i, k>> :
              k \in {c \in DOMAIN parse_gmail_response(msgs[i], RemoteMessage(msgs[i]),
                                    RemoteMessage(msgs[i]).labelIds).contacts :
                     parse_gmail_response(msgs[i], RemoteMessage(msgs[i]),
                         RemoteMessage(msgs[i]).labelIds).contacts[c].email = addr}} :
           i \in 1..n}

ObservedAt(o) ==
    parse_gmail_response(msgs[o[1]], RemoteMessage(msgs[o[1]]),
                         RemoteMessage(msgs[o[1]]).labelIds).contacts[o[2]].timestamp

Latest(S) == CHOOSE t \in S : \A u \in S : u <= t

\* C20: in a full sync, after each message, every contact's interaction
\* count is the count committed before (none for a new contact) plus the
\* number of observations of its address so far, and its last interaction
\* is the latest of the committed one and the observed timestamps; an
\* address not observed is as committed.
C20_ContactRollup ==
    pc = "init_msg" =>
        \A addr \in Addresses :
            LET obs == Observations(addr, idx - 1)
                known == addr \in DOMAIN db.committed.contacts
                before == IF known THEN db.committed.contacts[addr].interaction_count
                          ELSE 0
                seen == {ObservedAt(o) : o \in obs}
                          \cup (IF known
                                THEN {db.committed.contacts[addr].last_interaction}
                                ELSE {})
            IN IF obs = {}
               THEN known = (addr \in DOMAIN db.working.contacts)
                    /\ (known => db.working.contacts[addr] = db.committed.contacts[addr])
               ELSE /\ addr \in DOMAIN db.working.contacts
                    /\ db.working.contacts[addr].interaction_count
                          = before + Cardinality(obs)
                    /\ db.working.contacts[addr].last_interaction = Latest(seen)

\* C20 witness: two messages of the same sender in one first full sync, the
\* later one first: count 2 and the later timestamp.
C20_Witness ==
    /\ pc = "init_msg"
    /\ msgs = <<"m2", "m1">>
    /\ idx = 3
    /\ db.committed.contacts = EmptyFn
    /\ db.working.contacts["a@x"].interaction_count = 2
    /\ db.working.contacts["a@x"].last_interaction = 2

\* Every contact of store a is in store b with a count and a last
\* interaction that are not smaller.
ContactsKept(a, b) ==
    \A addr \in DOMAIN a.contacts :
        /\ addr \in DOMAIN b.contacts
        /\ b.contacts[addr].interaction_count >= a.contacts[addr].interaction_count
        /\ b.contacts[addr].last_interaction >= a.contacts[addr].last_interaction

InTransaction(p) == p \in {"page", "page_commit", "init_msg", "init_commit"}

\* C21: no step of a sync deletes a committed contact or lowers its
\* interaction count or last interaction, and no write inside a transaction
\* (message upsert, message delete, label change, cursor) does so to the
\* contacts the transaction holds.
C21_ContactsNeverShrink ==
    [][/\ ContactsKept(db.committed, db'.committed)
       /\ (InTransaction(pc) /\ InTransaction(pc')) =>
             ContactsKept(db.working, db'.working)]_vars

\* C21 witness: a page has deleted the stored message m1; the contact of its
\* sender is as it was.
C21_Witness ==
    /\ pc = "page_commit"
    /\ "m1" \in DOMAIN db.committed.emails
    /\ "m1" \notin DOMAIN db.working.emails
    /\ "a@x" \in DOMAIN db.committed.contacts
    /\ db.working.contacts = db.committed.contacts

ObservedName(o) ==
    parse_gmail_response(msgs[o[1]], RemoteMessage(msgs[o[1]]),
                         RemoteMessage(msgs[o[1]]).labelIds).contacts[o[2]].name

\* C22 as claimed: in a full sync, once an observation of an address has
\* carried a display name, the contact keeps a non-empty name: a later
\* observation without a name (a bare address) does not erase it.
C22_NameNotErased ==
    pc = "init_msg" =>
        \A addr \in Addresses :
            (\E o \in Observations(addr, idx - 1) : ObservedName(o) # "") =>
                /\ addr \in DOMAIN db.working.contacts
                /\ db.working.contacts[addr].name \notin {"", Null}

\* What upsert_contact does keep: the name of the last observation, empty
\* or not.
C22_LastObservationWins ==
    pc = "init_msg" =>
        \A addr \in Addresses :
            \A o \in Observations(addr, idx - 1) :
                (\A u \in Observations(addr, idx - 1) : u[1] <= o[1]) =>
                    db.working.contacts[addr].name = ObservedName(o)

\* C23 as claimed: a message whose content the normaliser cannot read never
\* ends the page or the attempt: no exception in flight and no error raised
\* to the caller is that message's.
C23_MalformedConfined ==
    /\ err # Malformed
    /\ att.bodyErr # Malformed
    /\ (pc = "idle" /\ outcome = "raised") => err \in HttpStatuses

\* The (message, label) pairs a list of label events names.
EventPairs(events) ==
    UNION {{<<events[i].message.id, events[i].labelIds[j]>> :
                j \in DOMAIN events[i].labelIds} : i \in DOMAIN events}

\* C30: a record of 'label added' events only leaves the membership relation
\* with the listed pairs added and nothing else changed; a record of 'label
\* removed' events only leaves it with the listed pairs removed and nothing
\* else changed; neither touches the messages, labels, contacts or cursor.
C30_LabelEventFrame ==
    [][(/\ pc = "page"
        /\ pc' = "page"
        /\ idx' = idx + 1
        /\ resp.history[idx].messagesAdded = <<>>
        /\ resp.history[idx].messagesDeleted = <<>>) =>
          /\ resp.history[idx].labelsRemoved = <<>> =>
                db'.working.email_labels =
                    db.working.email_labels \cup EventPairs(resp.history[idx].labelsAdded)
          /\ resp.history[idx].labelsAdded = <<>> =>
                db'.working.email_labels =
                    db.working.email_labels \ EventPairs(resp.history[idx].labelsRemoved)
          /\ db'.working.emails = db.working.emails
          /\ db'.working.labels = db.working.labels
          /\ db'.working.contacts = db.working.contacts
          /\ db'.working.metadata = db.working.metadata
          /\ db'.committed = db.committed]_vars

\* C30 witness: INBOX added on the stored message m2, which carried UNREAD:
\* one row more, the others as they were.
C30_Witness ==
    /\ pc = "page"
    /\ idx = 2
    /\ resp.history = <<RecLabelAdded("m2", <<"INBOX">>)>>
    /\ "m2" \in DOMAIN db.committed.emails
    /\ <<"m2", "UNREAD">> \in db.committed.email_labels
    /\ <<"m2", "INBOX">> \notin db.committed.email_labels
    /\ db.working.email_labels = db.committed.email_labels \cup {<<"m2", "INBOX">>}

\* C24: whatever labels were upserted and in whatever order, get_labels
\* returns every stored label once, every system label before every user
\* label, and within a category in ascending order of name.
C24_LabelsOrdered ==
    [][app'.view.call = "get_labels" =>
        LET rows == app'.view.rows IN
        /\ {rows[i].id : i \in DOMAIN rows} = DOMAIN db.committed.labels
        /\ Len(rows) = Cardinality(DOMAIN db.committed.labels)
        /\ \A i \in DOMAIN rows :
              /\ rows[i].name = db.committed.labels[rows[i].id].name
              /\ rows[i].type = db.committed.labels[rows[i].id].type
        /\ \A i, j \in DOMAIN rows :
              (rows[i].type = "system" /\ rows[j].type = "user") => i < j
        /\ \A i, j \in DOMAIN rows :
              (i < j /\ rows[i].type = rows[j].type) =>
                  StrRank(rows[i].name) < StrRank(rows[j].name)]_vars

\* C24 witness: Z-Label (user), Inbox (system) and A-Label (user) were
\* upserted; get_labels lists Inbox, A-Label, Z-Label.
C24_Witness ==
    /\ app.view.call = "get_labels"
    /\ Len(app.view.rows) = 3
    /\ app.view.rows[1].name = "Inbox"
    /\ app.view.rows[1].type = "system"
    /\ app.view.rows[2].name = "A-Label"
    /\ app.view.rows[3].name = "Z-Label"
    /\ app.view.rows[3].id = "USER_1"

\* C25 as claimed: once upsert_label(id, name, type) is committed,
\* get_labels has exactly one entry with that id, carrying that name and
\* type, and when the id was already stored the number of labels is the
\* same as before.
C25_UpsertLabelById ==
    [][app'.view.call = "upsert_label" =>
        LET id == app'.view.args[1]
            rows == get_labels(db'.committed)
            mine == {i \in DOMAIN rows : rows[i].id = id}
        IN /\ Cardinality(mine) = 1
           /\ \A i \in mine : /\ rows[i].name = app'.view.args[2]
                              /\ rows[i].type = app'.view.args[3]
           /\ id \in DOMAIN db.committed.labels =>
                 Len(rows) = Len(get_labels(db.committed))]_vars

\* What upsert_label does keep: one entry with the id, carrying the name and
\* type, and the other labels as they were unless one of them had the name.
C25_UpsertLabelByIdOrName ==
    [][app'.view.call = "upsert_label" =>
        LET id == app'.view.args[1]
            name == app'.view.args[2]
        IN /\ id \in DOMAIN db'.committed.labels
           /\ db'.committed.labels[id] = [name |-> name, type |-> app'.view.args[3]]
           /\ \A l \in DOMAIN db.committed.labels \ {id} :
                 IF db.committed.labels[l].name = name
                 THEN l \notin DOMAIN db'.committed.labels
                 ELSE /\ l \in DOMAIN db'.committed.labels
                      /\ db'.committed.labels[l] = db.committed.labels[l]]_vars

\* The stored messages that carry a label.
Carrying(store, label_id) ==
    {m \in DOMAIN store.emails : <<m, label_id>> \in store.email_labels}

\* C26: get_emails(label_id, limit, offset) returns stored messages that
\* carry label_id, each once and as stored, newest first; it returns as
\* many as remain after the first offset ones, at most limit, and entry i
\* is one that stands at place offset + i among them by timestamp.
C26_EmailsOfLabel ==
    [][app'.view.call = "get_emails" =>
        LET label_id == app'.view.args[1]
            limit == app'.view.args[2]
            offset == app'.view.args[3]
            rows == app'.view.rows
            all == Carrying(db.committed, label_id)
            left == IF Cardinality(all) > offset THEN Cardinality(all) - offset ELSE 0
        IN /\ \A i \in DOMAIN rows :
                /\ rows[i].id \in all
                /\ rows[i].timestamp = db.committed.emails[rows[i].id].timestamp
                /\ rows[i].is_read = db.committed.emails[rows[i].id].is_read
           /\ \A i, j \in DOMAIN rows : i # j => rows[i].id # rows[j].id
           /\ \A i, j \in DOMAIN rows : i < j => rows[i].timestamp >= rows[j].timestamp
           /\ Len(rows) = Min(limit, left)
           /\ \A i \in DOMAIN rows :
                /\ Cardinality({m \in all : db.committed.emails[m].timestamp
                                              > rows[i].timestamp}) <= offset + i - 1
                /\ Cardinality({m \in all : db.committed.emails[m].timestamp
                                              >= rows[i].timestamp}) >= offset + i]_vars

\* C26 witness: two stored messages carry UNREAD and a third was deleted, its
\* membership rows left behind; the second page of one entry holds the
\* older of the two.
C26_Witness ==
    /\ app.view.call = "get_emails"
    /\ app.view.args = <<"UNREAD", 1, 1>>
    /\ Len(app.view.rows) = 1
    /\ Cardinality(Carrying(db.committed, "UNREAD")) = 2
    /\ \E m \in QueryMsgIds :
          /\ m \notin DOMAIN db.committed.emails
          /\ <<m, "UNREAD">> \in db.committed.email_labels
    /\ \E m \in Carrying(db.committed, "UNREAD") :
          db.committed.emails[m].timestamp > app.view.rows[1].timestamp

\* Contact a ranks strictly above contact b: more interactions, or as many
\* and a later last interaction.
Outranks(a, b) ==
    \/ a.interaction_count > b.interaction_count
    \/ /\ a.interaction_count = b.interaction_count
       /\ a.last_interaction > b.last_interaction

\* C27: get_top_contacts(limit) returns at most limit stored contacts, each
\* once and as stored, as many as there are up to limit, none ranked above
\* one before it, and no stored contact left out outranks one returned.
C27_TopContacts ==
    [][app'.view.call = "get_top_contacts" =>
        LET limit == app'.view.args[1]
            rows == app'.view.rows
            stored == db.committed.contacts
        IN /\ Len(rows) = Min(limit, Cardinality(DOMAIN stored))
           /\ \A i \in DOMAIN rows :
                /\ rows[i].email \in DOMAIN stored
                /\ rows[i].interaction_count = stored[rows[i].email].interaction_count
                /\ rows[i].last_interaction = stored[rows[i].email].last_interaction
           /\ \A i, j \in DOMAIN rows : i # j => rows[i].email # rows[j].email
           /\ \A i, j \in DOMAIN rows : i < j => ~Outranks(rows[j], rows[i])
           /\ \A c \in DOMAIN stored :
                (\A i \in DOMAIN rows : rows[i].email # c) =>
                    \A i \in DOMAIN rows : ~Outranks(stored[c], rows[i])]_vars

\* C27 witness: of three contacts the two returned have the same count and
\* are told apart by their last interaction, and the one left out has the
\* latest interaction of all but a smaller count.
C27_Witness ==
    /\ app.view.call = "get_top_contacts"
    /\ app.view.args = <<2>>
    /\ Len(app.view.rows) = 2
    /\ Cardinality(DOMAIN db.committed.contacts) = 3
    /\ app.view.rows[1].interaction_count = app.view.rows[2].interaction_count
    /\ app.view.rows[1].last_interaction > app.view.rows[2].last_interaction
    /\ \E c \in DOMAIN db.committed.contacts :
          /\ db.committed.contacts[c].interaction_count < app.view.rows[2].interaction_count
          /\ db.committed.contacts[c].last_interaction >= app.view.rows[1].last_interaction

(***************************************************************************)
(* Timestamp resolution of MessageParser.parse_gmail_response              *)
(*                                                                         *)
(* A datetime is [second, microsecond, tzinfo]: seconds and microseconds   *)
(* of its wall clock counted from the epoch's midnight, and the offset of  *)
(* its zone from UTC in seconds (None for a naive one, 0 for UTC).  A date *)
(* header is [kind, wall, zone]: absent (mime_msg.get gives None), empty,  *)
(* a text that is no date, or a date, with the wall clock it spells, in    *)
(* seconds, and the zone it ends with.                                     *)
(***************************************************************************)

Walls == {3600, 36000, 82800}

\* The zones a header ends with, and the offset each one spells.
ZoneOffsets == [x \in {"-0500", "+0000", "+0530"} |->
                   CASE x = "-0500" -> 0 - 18000
                     [] x = "+0000" -> 0
                     [] x = "+0530" -> 19800]

Zones == DOMAIN ZoneOffsets \cup {"", "-0000"}

Dates == [kind : {"date"}, wall : Walls, zone : Zones]

NoDates == [kind : {"absent", "empty", "invalid"}, wall : {None}, zone : {""}]

DateHeaders == NoDates \cup Dates

InternalDates == {None, 0, 36000000, 36000500}

NoDatetime == [second |-> None, microsecond |-> None, tzinfo |-> None]

\* email.utils.parsedate_to_datetime: a text that is no date raises (dt stays
\* None); a date without a zone, or with the zone -0000, gives a naive
\* datetime; a date with a zone gives one aware of that offset.
parsedate_to_datetime(date_str) ==
    IF date_str.kind # "date" THEN NoDatetime
    ELSE [second |-> date_str.wall, microsecond |-> 0,
          tzinfo |-> IF date_str.zone \in DOMAIN ZoneOffsets
                     THEN ZoneOffsets[date_str.zone] ELSE None]

\* dt.replace(tzinfo=timezone.utc): the same wall clock, now in UTC.
replace_tzinfo_utc(dt) == [dt EXCEPT !.tzinfo = 0]

\* The faulty variant of astimezone_utc that keeps the wall clock.
astimezone_keep_wall(dt) == [dt EXCEPT !.tzinfo = 0]

\* dt.astimezone(timezone.utc): the same instant, its wall clock in UTC.
astimezone_utc(dt) == [dt EXCEPT !.second = @ - dt.tzinfo, !.tzinfo = 0]

\* datetime.fromtimestamp(ms_val / 1000.0, tz=timezone.utc)
fromtimestamp_utc(ms_val) ==
    [second |-> ms_val \div 1000, microsecond |-> (ms_val % 1000) * 1000, tzinfo |-> 0]

\* Lines 38-55 of parse_gmail_response.
resolve_timestamp(message_data) ==
    LET date_str == message_data.date
        dt == IF date_str.kind \notin {"absent", "empty"}
              THEN parsedate_to_datetime(date_str)
              ELSE NoDatetime
    IN IF dt # NoDatetime
       THEN IF dt.tzinfo = None THEN replace_tzinfo_utc(dt) ELSE astimezone_utc(dt)
       ELSE fromtimestamp_utc(IF message_data.internalDate = None THEN 0
                              ELSE message_data.internalDate)

InitParse ==
    /\ pc = "parse"
    /\ resp \in [date : DateHeaders, internalDate : InternalDates]
    /\ msgs = <<>>
    /\ db = [committed |-> EmptyStore, working |-> EmptyStore]
    /\ history_id = None
    /\ idx = 1
    /\ result = SyncResult(0, 0, 0)
    /\ outcome = "none"
    /\ err = NoErr
    /\ att = NewAttempt(None)
    /\ attempts = 0
    /\ page_token = None
    /\ feed = <<>>
    /\ head = 0
    /\ gone = AllFetched
    /\ app = NewApp

ParseGmailResponse ==
    /\ pc = "parse"
    /\ msgs' = <<[timestamp |-> resolve_timestamp(resp)]>>
    /\ pc' = "parsed"
    /\ UNCHANGED <<db, history_id, resp, idx, result, outcome, err, att, attempts,
                   page_token, feed, head, gone, app>>

NextParse == ParseGmailResponse

SpecParse == InitParse /\ [][NextParse]_vars

\* C28: the timestamp of a parsed message is in UTC; it is the header's wall
\* clock less the header's offset when the header is a date with a zone
\* (10:00 -0500 gives 15:00), the header's wall clock when it is a date
\* without one, and the instant internalDate milliseconds after the epoch
\* when the header is absent or no date.
C28_TimestampResolved ==
    pc = "parsed" =>
        LET date_str == resp.date
            timestamp == msgs[1].timestamp
        IN /\ timestamp.tzinfo = 0
           /\ (date_str.kind = "date" /\ date_str.zone \in DOMAIN ZoneOffsets) =>
                /\ timestamp.second = date_str.wall - ZoneOffsets[date_str.zone]
                /\ timestamp.microsecond = 0
           /\ (date_str.kind = "date" /\ date_str.zone = "") =>
                /\ timestamp.second = date_str.wall
                /\ timestamp.microsecond = 0
           /\ (date_str.kind \in {"absent", "empty", "invalid"} /\ resp.internalDate # None) =>
                /\ timestamp.second * 1000 + timestamp.microsecond \div 1000
                     = resp.internalDate
                /\ timestamp.microsecond % 1000 = 0

\* C28 witness: the header 10:00 -0500 was parsed and the timestamp is 15:00.
C28_Witness ==
    /\ pc = "parsed"
    /\ resp.date = [kind |-> "date", wall |-> 36000, zone |-> "-0500"]
    /\ msgs[1].timestamp = [second |-> 54000, microsecond |-> 0, tzinfo |-> 0]

\* C29: the first request of an incremental sync carries no page token and
\* every later one the token of the page before it; a page that has records
\* is committed, alone, before the next request is made; an answer without
\* records ends the sync at once, and so does the commit of a page that
\* came without a next-page token.
C29_PagedLoop ==
    [][/\ (pc # "list_history" /\ pc' = "list_history") =>
            IF pc = "page_commit"
            THEN /\ resp.history # <<>>
                 /\ resp.nextPageToken # None
                 /\ page_token' = resp.nextPageToken
                 /\ db'.committed = db.working
                 /\ att'.pages = att.pages + 1
            ELSE /\ page_token' = None
                 /\ att'.listCalls = 0
                 /\ att'.pages = 0
       /\ (pc = "list_history" /\ pc' = "list_history") =>
            /\ page_token' = page_token
            /\ att'.listCalls = att.listCalls
       /\ (pc = "list_history" /\ att'.listCalls = att.listCalls + 1) =>
            /\ att.pages = att.listCalls
            /\ db.working = db.committed
            /\ (att.listCalls = 0) = (page_token = None)
            /\ pc' = "page" =>
                 /\ resp' \in list_history(history_id, page_token)
                 /\ resp'.history # <<>>
                 /\ db'.committed = db.committed
            /\ pc' = "idle" =>
                 /\ outcome' = "returned"
                 /\ [history |-> <<>>, historyId |-> head, nextPageToken |-> None]
                        \in list_history(history_id, page_token)
                 /\ db' = db
            /\ pc' \in {"page", "idle", "except"}
       /\ (pc = "page_commit" /\ pc' # "page_commit" /\ outcome' # "crashed") =>
            /\ db'.committed = db.working
            /\ IF resp.nextPageToken = None
               THEN pc' = "idle" /\ outcome' = "returned"
               ELSE pc' = "list_history"]_vars

\* C29 witness: one page is committed, the second request was made with the
\* token that page came with, and its answer, the records after the token,
\* is being applied.
C29_Witness ==
    /\ pc = "page"
    /\ att.listCalls = 2
    /\ att.pages = 1
    /\ page_token # None
    /\ resp.history = SubSeq(feed, page_token + 1, page_token + Len(resp.history))
    /\ get_metadata(db.committed, "history_id") # history_id

\* C31: in every committed state each membership row names a stored message
\* and a stored label.
C31_NoDanglingMembership ==
    \A row \in db.committed.email_labels :
        /\ row[1] \in DOMAIN db.committed.emails
        /\ row[2] \in DOMAIN db.committed.labels

\* C31, the case the claim singles out: a committed page never gains a
\* membership row for a message the store does not hold.
C31_LabelAddedOnStoredOnly ==
    [][\A row \in db'.committed.email_labels \ db.committed.email_labels :
            row[1] \in DOMAIN db'.committed.emails]_vars

\* C32: in every committed state a stored message is read exactly when its
\* membership rows do not include UNREAD.
C32_ReadFlagFollowsUnread ==
    \A m \in DOMAIN db.committed.emails :
        db.committed.emails[m].is_read = (<<m, "UNREAD">> \notin db.committed.email_labels)

(***************************************************************************)
(* Sync attempts that overlap.  trigger_sync starts a thread worker for    *)
(* every call and a cancelled thread worker keeps running, so several      *)
(* incremental_sync may be under way on the same store.  Here pc,          *)
(* history_id, resp and page_token hold one entry per attempt, in the      *)
(* order the threads started.  The remote side answers every request, and  *)
(* the cursor value of an answer is the mailbox's current history id,      *)
(* which only grows.  SQLite lets one connection write at a time, so the   *)
(* transaction of a page is one step.                                      *)
(***************************************************************************)

\* The answers of list_history whose historyId is the mailbox's current one.
list_history_current(start_history_id, token) ==
    {page \in list_history(start_history_id, token) : page.historyId = head}

InitRace ==
    /\ db = SyncedStore
    /\ pc = <<>>
    /\ history_id = <<>>
    /\ resp = <<>>
    /\ page_token = <<>>
    /\ idx = 1
    /\ msgs = <<>>
    /\ result = SyncResult(0, 0, 0)
    /\ outcome = "none"
    /\ err = NoErr
    /\ att = NewAttempt(None)
    /\ attempts = 0
    /\ feed \in Feeds
    /\ head = 0
    /\ gone = AllFetched
    /\ app = [NewApp EXCEPT !.sync_service = TRUE]

\* The thread of the next worker enters incremental_sync: lines 99-110.
RaceStart ==
    /\ attempts < Len(app.workers)
    /\ Cursor(db.committed) # None
    /\ attempts' = attempts + 1
    /\ pc' = Append(pc, "list_history")
    /\ history_id' = Append(history_id, Cursor(db.committed))
    /\ resp' = Append(resp, NoPage)
    /\ page_token' = Append(page_token, None)
    /\ UNCHANGED <<db, idx, msgs, result, outcome, err, att, feed, head, gone>>
    /\ UNCHANGED app

\* Lines 114-120 of attempt i; an answer without records ends the attempt
\* (lines 134-137) and its worker.
RaceListHistory ==
    /\ \E i \in DOMAIN pc :
        /\ pc[i] = "list_history"
        /\ \E page \in list_history_current(history_id[i], page_token[i]) :
            IF page.history = <<>>
            THEN /\ pc' = [pc EXCEPT ![i] = "returned"]
                 /\ resp' = resp
                 /\ app' = [app EXCEPT !.workers[i].thread = "returned"]
            ELSE /\ pc' = [pc EXCEPT ![i] = "page"]
                 /\ resp' = [resp EXCEPT ![i] = page]
                 /\ app' = app
    /\ UNCHANGED <<db, history_id, page_token, idx, msgs, result, outcome, err, att,
                   attempts, feed, head, gone>>

\* Lines 122-137 of attempt i: the page's transaction, from its first write
\* to its commit, then the page token.
RaceCommitPage ==
    /\ \E i \in DOMAIN pc :
        /\ pc[i] = "page"
        /\ db' = transaction_exit(
                    apply_page(get_connection(db), resp[i], result, AllFetched).conn,
                    NoErr)
        /\ IF resp[i].nextPageToken = None
           THEN /\ pc' = [pc EXCEPT ![i] = "returned"]
                /\ page_token' = page_token
                /\ app' = [app EXCEPT !.workers[i].thread = "returned"]
           ELSE /\ pc' = [pc EXCEPT ![i] = "list_history"]
                /\ page_token' = [page_token EXCEPT ![i] = resp[i].nextPageToken]
                /\ app' = app
        /\ resp' = [resp EXCEPT ![i] = NoPage]
    /\ UNCHANGED <<history_id, idx, msgs, result, outcome, err, att, attempts,
                   feed, head, gone>>

NextRace ==
    \/ TriggerSync
    \/ HandlerResumes
    \/ RemoteChange
    \/ RaceStart
    \/ RaceListHistory
    \/ RaceCommitPage

SpecRace == InitRace /\ [][NextRace]_vars

\* C33: no step replaces the committed cursor by an older value.
C33_CursorNeverBackwards ==
    [][Cursor(db'.committed) >= Cursor(db.committed)]_vars

(***************************************************************************)
(* A full sync against a mailbox that changes while it runs.  Here gone is *)
(* the remote mailbox: get_message answers 200 for a message it holds and  *)
(* 404 for one it does not.  Each record of the feed, when it happens,     *)
(* changes the mailbox as it says.  att.listed is the listing the full     *)
(* sync was answered and att.listedAt the history id of the mailbox then.  *)
(***************************************************************************)
RecordAdded(record) ==
    {record.messagesAdded[j].message.id : j \in DOMAIN record.messagesAdded}

RecordDeleted(record) ==
    {record.messagesDeleted[j].message.id : j \in DOMAIN record.messagesDeleted}

RecordLabelled(record) ==
    {record.labelsAdded[j].message.id : j \in DOMAIN record.labelsAdded}
        \cup {record.labelsRemoved[j].message.id : j \in DOMAIN record.labelsRemoved}

\* The mailbox after a record has happened.
MailboxAfter(record, mailbox) ==
    [m \in MsgIds |-> IF m \in RecordDeleted(record) THEN "404"
                      ELSE IF m \in RecordAdded(record) THEN "200"
                      ELSE mailbox[m]]

\* A record can happen in a mailbox: it adds messages the mailbox lacks and
\* deletes or relabels messages it holds.
RecordFits(record, mailbox) ==
    /\ \A m \in RecordAdded(record) : mailbox[m] = "404"
    /\ \A m \in RecordDeleted(record) : mailbox[m] = "200"
    /\ \A m \in RecordLabelled(record) \ RecordAdded(record) : mailbox[m] = "200"

RECURSIVE FeedFits(_, _, _)
FeedFits(records, mailbox, i) ==
    IF i > Len(records) THEN TRUE
    ELSE /\ RecordFits(records[i], mailbox)
         /\ FeedFits(records, MailboxAfter(records[i], mailbox), i + 1)

\* messages.list: the messages the mailbox holds, in some order.
list_messages(mailbox) ==
    {s \in UNION {[1..n -> MsgIds] : n \in 0..Cardinality(MsgIds)} :
        /\ \A i, j \in DOMAIN s : i # j => s[i] # s[j]
        /\ {s[i] : i \in DOMAIN s} = {m \in MsgIds : mailbox[m] = "200"}}

InitFull ==
    /\ db \in {[committed |-> EmptyStore, working |-> EmptyStore], SyncedStore}
    /\ history_id = Cursor(db.committed)
    /\ feed \in UNION {[1..n -> Records] : n \in 0..MaxRecords}
    /\ gone \in [MsgIds -> {"200", "404"}]
    /\ FeedFits(feed, gone, 1)
    /\ head = 0
    /\ pc = "sync_labels"
    /\ att = [NewAttempt(history_id) EXCEPT
                !.via = IF history_id = None THEN "nocursor" ELSE "expired"]
    /\ attempts = 1
    /\ resp = NoPage
    /\ idx = 1
    /\ msgs = <<>>
    /\ result = SyncResult(0, 0, 0)
    /\ outcome = "none"
    /\ err = NoErr
    /\ page_token = None
    /\ app = NewApp

\* The next record of the feed happens in the mailbox.
MailboxChange ==
    /\ head < Len(feed)
    /\ head' = head + 1
    /\ gone' = MailboxAfter(feed[head + 1], gone)
    /\ UNCHANGED <<db, pc, history_id, resp, idx, msgs, result, outcome, err, att,
                   attempts, page_token, feed>>
    /\ UNCHANGED app

\* Lines 68-72, answered from the mailbox as it is now.
FullListMessages ==
    /\ pc = "list_messages"
    /\ \E messages \in list_messages(gone) :
        /\ msgs' = messages
        /\ att' = [att EXCEPT !.listed = messages, !.listedAt = head]
    /\ db' = get_connection(db)
    /\ idx' = 1
    /\ pc' = "init_msg"
    /\ UNCHANGED <<history_id, resp, result, outcome, err, attempts,
                   page_token, feed, head, gone>>
    /\ UNCHANGED app

\* Lines 73-88, get_message answered from the mailbox as it is now: a
\* message deleted since the listing answers 404, which ends the
\* transaction and the attempt.
FullSyncMessage ==
    /\ pc = "init_msg"
    /\ idx <= Len(msgs)
    /\ IF gone[msgs[idx]] = "200"
       THEN /\ db' = store_parsed(db,
                       parse_gmail_response(msgs[idx], RemoteMessage(msgs[idx]),
                                            RemoteMessage(msgs[idx]).labelIds))
            /\ idx' = idx + 1
            /\ UNCHANGED <<pc, err, outcome, msgs, att>>
       ELSE /\ db' = transaction_exit(db, gone[msgs[idx]])
            /\ err' = transaction_reraise(gone[msgs[idx]])
            /\ outcome' = "raised"
            /\ pc' = "idle"
            /\ idx' = 1
            /\ msgs' = <<>>
            /\ att' = [att EXCEPT !.bodyErr = gone[msgs[idx]],
                                  !.undone = (db.working # db.committed)]
    /\ UNCHANGED <<history_id, resp, result, attempts,
                   page_token, feed, head, gone>>
    /\ UNCHANGED app

NextFull ==
    \/ MailboxChange
    \/ SyncLabels
    \/ FullListMessages
    \/ FullSyncMessage
    \/ GetProfile
    \/ CommitInitial

SpecFull == InitFull /\ [][NextFull]_vars

\* The records that happened after position lo and up to position hi and
\* that add or delete message m.
Touching(m, lo, hi) ==
    {i \in (lo + 1)..hi : m \in RecordAdded(feed[i]) \cup RecordDeleted(feed[i])}

\* C34: when a full sync commits, the store agrees with the mailbox, as it
\* was at the cursor the sync stores, on every message added or deleted by
\* a record that happened after the listing and is not after that cursor
\* (the records after the cursor are the ones the change feed returns for
\* it).
C34_NoChangeLost ==
    [][(pc = "init_commit" /\ pc' = "idle" /\ outcome' = "returned") =>
        LET cursor == Cursor(db'.committed) IN
        \A m \in MsgIds :
            Touching(m, att.listedAt, cursor) # {} =>
                LET last == CHOOSE i \in Touching(m, att.listedAt, cursor) :
                                \A k \in Touching(m, att.listedAt, cursor) : k <= i
                IN (m \in DOMAIN db'.committed.emails)
                      = (m \notin RecordDeleted(feed[last]))]_vars

\* C35: when a full sync commits, every stored message is one of the
\* messages of the listing it was answered.
C35_StoreWithinListing ==
    [][(pc = "init_commit" /\ pc' = "idle" /\ outcome' = "returned") =>
        DOMAIN db'.committed.emails \subseteq {att.listed[i] : i \in DOMAIN att.listed}]_vars

(***************************************************************************)
(* Attempts repeated without end, against a remote that has stopped        *)
(* failing and changing: every request is answered, a message is fetched   *)
(* (200), is gone (404) or has content the parser cannot read.  The timer  *)
(* of initialize_session keeps starting attempts, so the thread always     *)
(* takes its next step.                                                    *)
(***************************************************************************)
InitRetry ==
    /\ db = SyncedStore
    /\ feed \in Feeds
    /\ head = Len(feed)
    /\ pc = "idle"
    /\ history_id = None
    /\ resp = NoPage
    /\ idx = 1
    /\ msgs = <<>>
    /\ result = SyncResult(0, 0, 0)
    /\ outcome = "none"
    /\ err = NoErr
    /\ att = NewAttempt(None)
    /\ attempts = 0
    /\ page_token = None
    /\ gone = AllFetched
    /\ app = NewApp

\* The next tick of the timer: incremental_sync, lines 99-110, with a stored
\* cursor.
RetrySync ==
    /\ pc = "idle"
    /\ Cursor(db.committed) # None
    /\ history_id' = Cursor(db.committed)
    /\ result' = SyncResult(0, 0, 0)
    /\ att' = NewAttempt(history_id')
    /\ pc' = "list_history"
    /\ outcome' = "none"
    /\ err' = NoErr
    /\ resp' = NoPage
    /\ idx' = 1
    /\ msgs' = <<>>
    /\ page_token' = None
    /\ UNCHANGED <<db, attempts, feed, head, gone>>
    /\ UNCHANGED app

\* Lines 114-122, answered by a remote that does not fail.
RetryListHistory ==
    /\ pc = "list_history"
    /\ \E page \in list_history(history_id, page_token) :
        /\ att' = [att EXCEPT !.listCalls = @ + 1]
        /\ IF page.history = <<>>
           THEN /\ pc' = "idle"
                /\ outcome' = "returned"
                /\ LocalsDead
                /\ UNCHANGED db
           ELSE /\ pc' = "page"
                /\ outcome' = outcome
                /\ db' = get_connection(db)
                /\ resp' = page
                /\ idx' = 1
                /\ \E answers \in ParseAnswers :
                    /\ \A m \in MsgIds \ AddedIds(page) : answers[m] = "200"
                    /\ gone' = answers
                /\ UNCHANGED <<history_id, msgs, page_token>>
    /\ UNCHANGED <<result, err, attempts, feed, head>>
    /\ UNCHANGED app

NextRetry ==
    \/ RetrySync
    \/ RetryListHistory
    \/ ProcessRecord
    \/ SetCursor
    \/ CommitPage
    \/ PropagateError

SpecRetry == InitRetry /\ [][NextRetry]_vars /\ WF_vars(NextRetry)

\* C36: repeated attempts against a remote that no longer fails bring the
\* committed cursor up to the remote's current history id.
C36_EventuallyCaughtUp ==
    <>(Cursor(db.committed) = head)

\* What does hold: the cursor catches up unless attempts keep meeting a
\* message the parser cannot read.
C36_CaughtUpUnlessMalformed ==
    []<>(err = Malformed) \/ <>(Cursor(db.committed) = head)

\* C37: a record that has been applied leaves every label it removes absent
\* from the message, also one it adds as well; every message it deletes
\* absent from the messages, also one it adds as well; every label it adds
\* and does not remove on the message; and every message it adds, fetches
\* and does not delete stored: the order is additions, label additions,
\* label removals, deletions.
C37_FixedOrder ==
    [][(pc = "page" /\ pc' = "page" /\ idx' = idx + 1) =>
        LET record == resp.history[idx] IN
        /\ \A row \in EventPairs(record.labelsRemoved) :
              row \notin db'.working.email_labels
        /\ \A m \in RecordDeleted(record) : m \notin DOMAIN db'.working.emails
        /\ \A row \in EventPairs(record.labelsAdded) \ EventPairs(record.labelsRemoved) :
              row \in db'.working.email_labels
        /\ \A m \in RecordAdded(record) \ RecordDeleted(record) :
              gone[m] = "200" => m \in DOMAIN db'.working.emails]_vars

\* C37 witness: m1 was stored with INBOX and UNREAD; a record that adds and
\* deletes m1, and then a record that adds and removes UNREAD on m1, were
\* applied: m1 is not stored, and of its rows INBOX is there and UNREAD not.
C37_Witness ==
    /\ pc = "page"
    /\ idx = 3
    /\ resp.history = <<RecAddedAndDeleted, RecLabelBoth>>
    /\ gone["m1"] = "200"
    /\ "m1" \in DOMAIN db.committed.emails
    /\ <<"m1", "UNREAD">> \in db.committed.email_labels
    /\ "m1" \notin DOMAIN db.working.emails
    /\ <<"m1", "INBOX">> \in db.working.email_labels
    /\ <<"m1", "UNREAD">> \notin db.working.email_labels

\* C38: upsert_label(id, name, type) leaves every label of another id
\* stored, with the name and type it had.
C38_UpsertLabelFrame ==
    [][app'.view.call = "upsert_label" =>
        \A l \in DOMAIN db.committed.labels \ {app'.view.args[1]} :
            /\ l \in DOMAIN db'.committed.labels
            /\ db'.committed.labels[l] = db.committed.labels[l]]_vars

\* What upsert_label does keep: every label of another id and another name.
C38_UpsertLabelFrameOtherNames ==
    [][app'.view.call = "upsert_label" =>
        \A l \in DOMAIN db.committed.labels \ {app'.view.args[1]} :
            db.committed.labels[l].name # app'.view.args[2] =>
                /\ l \in DOMAIN db'.committed.labels
                /\ db'.committed.labels[l] = db.committed.labels[l]]_vars

\* C39: the label upserts of a full sync leave every committed membership
\* row in place, those of the labels it upserts again included.
C39_MembershipSurvivesUpsert ==
    [][(pc = "sync_labels" /\ pc' = "list_messages") =>
        /\ db'.committed.email_labels = db.committed.email_labels
        /\ \A i \in DOMAIN RemoteLabels :
              RemoteLabels[i].id \in DOMAIN db'.committed.labels]_vars

\* C39 witness: the full sync run for an expired cursor has upserted INBOX
\* and UNREAD again, and m1, stored before, still carries both.
C39_Witness ==
    /\ pc = "list_messages"
    /\ att.via = "expired"
    /\ "m1" \in DOMAIN db.committed.emails
    /\ {<<"m1", "INBOX">>, <<"m1", "UNREAD">>} \subseteq db.committed.email_labels
    /\ {"INBOX", "UNREAD"} \subseteq DOMAIN db.committed.labels

====
